---------------------------- MODULE Spec2Model ----------------------------
(***************************************************************************)
(* Model of the m4b-audiobook-builder scripts: the ordering engine         *)
(* (propose_m4b_order.compute_order), the metadata source selector         *)
(* (propose_m4b_order.choose_metadata_source), the chapter builder         *)
(* (build_m4b_inputs.build_chapters), the cover selection                  *)
(* (propose_m4b_order.choose_cover_source, cover_art.main) and the two     *)
(* pipelines (build_m4b_inputs.main, propose_m4b_order.main), with the     *)
(* natural sort key and the index parser they rest on.                     *)
(*                                                                         *)
(* Text is a sequence of character codes (ASCII): "a2" is <<97, 50>>.      *)
(* A pathlib.Path under the scan root is modelled by the text of its path  *)
(* relative to the root (str(p.relative_to(root))), POSIX separators.      *)
(***************************************************************************)
EXTENDS Integers, Sequences, FiniteSets, TLC

VARIABLES
    files,            \* compute_order / build_chapters argument: List[Path]
    metadata,         \* Dict[Path, Dict[str, object]]: a function on the paths that have a record
    root,             \* the scan root, an absolute path text
    durations,        \* what ffprobe prints for each file, in microseconds
    chapter_mode,     \* "dir" | "file" | "none"
    ordered,          \* the list returned by the latest compute_order call
    first_ordered,    \* the list returned by the first compute_order call
    warnings,         \* the warnings returned by the latest compute_order call
    metadata_source,  \* choose_metadata_source's result (PyNone or a path value)
    chapters,         \* build_chapters' result: a sequence of <<start_ms, end_ms, title>>
    pc,               \* position of the caller
    tree,             \* the regular files and links to files under the root (relative paths)
    links,            \* the symbolic links of the tree: path -> the path it resolves to
    args,             \* the parsed command line of the script that runs
    tools,            \* the external tools: which are installed, what they answer
    cover_source,     \* choose_cover_source's result (PyNone or a str value)
    cover,            \* extract_cover's result (PyNone or the output path)
    written,          \* the files written by the run: output path -> content
    exit_code,        \* main's return value, PyNone while it runs
    stderr,           \* the messages printed to stderr, in order
    summary,          \* the warnings of the summary printed by format_summary
    probed,           \* the external probes run so far, in order
    sort_keys         \* the keys computed from the input: natural_key's result for each text,
                      \* compute_order's (disc, track) for each entry

\* What a run reads: the directory tree, the command line, the tools.
env == <<tree, links, args, tools>>

\* What a run produces.
out == <<cover_source, cover, written, exit_code, stderr, summary, probed>>

vars == <<files, metadata, root, durations, chapter_mode, ordered, first_ordered,
          warnings, metadata_source, chapters, pc, env, out, sort_keys>>

---------------------------------------------------------------------------
(* Bounds of the model.                                                    *)

\* Longest file list handed to compute_order, choose_metadata_source, build_chapters.
MaxFiles == 3

\* A track number above the sentinel that compute_order gives to a missing one.
BigTrack == 1000000001

\* The sequences of at most n distinct elements of S.
DistinctSeqs(S, n) ==
    UNION { { s \in [1..k -> S] : \A i, j \in 1..k : i # j => s[i] # s[j] } : k \in 0..n }

Range(s) == { s[i] : i \in 1..Len(s) }

---------------------------------------------------------------------------
(* Python values: None, int, str, list/tuple.  One record shape for all,   *)
(* so that any two values can be compared for equality.                    *)

PyNone == [t |-> "none", n |-> 0, s |-> <<>>, l |-> <<>>]

PyInt(i) == [t |-> "int", n |-> i, s |-> <<>>, l |-> <<>>]

PyStr(text) == [t |-> "str", n |-> 0, s |-> text, l |-> <<>>]

PyList(elems) == [t |-> "list", n |-> 0, s |-> <<>>, l |-> elems]

\* bool(value): None, 0, "" and [] are falsy.
Truthy(v) ==
    CASE v.t = "none" -> FALSE
      [] v.t = "int"  -> v.n # 0
      [] v.t = "str"  -> v.s # <<>>
      [] OTHER        -> v.l # <<>>

IsDigit(c) == c \in 48..57

\* str.lower() on ASCII.
Lower(text) == [i \in 1..Len(text) |-> IF text[i] \in 65..90 THEN text[i] + 32 ELSE text[i]]

\* str.isdigit(): non-empty and every character a digit.
IsDigitStr(text) == text # <<>> /\ \A i \in 1..Len(text) : IsDigit(text[i])

\* int(text) for a text of decimal digits.
RECURSIVE IntOf(_)
IntOf(text) ==
    IF text = <<>> THEN 0
    ELSE 10 * IntOf(SubSeq(text, 1, Len(text) - 1)) + (text[Len(text)] - 48)

\* Comparison of two str values, code point by code point: "lt", "eq" or "gt".
RECURSIVE StrCmp(_, _)
StrCmp(a, b) ==
    IF a = <<>> /\ b = <<>> THEN "eq"
    ELSE IF a = <<>> THEN "lt"
    ELSE IF b = <<>> THEN "gt"
    ELSE IF Head(a) < Head(b) THEN "lt"
    ELSE IF Head(a) > Head(b) THEN "gt"
    ELSE StrCmp(Tail(a), Tail(b))

\* Python's ordering of two values: "lt", "eq", "gt", or "TypeError" when the
\* first differing pair has no order (an int against a str, anything against None).
RECURSIVE PyCmp(_, _)
RECURSIVE SeqCmp(_, _)
PyCmp(a, b) ==
    CASE a.t = "int" /\ b.t = "int" ->
             IF a.n < b.n THEN "lt" ELSE IF a.n > b.n THEN "gt" ELSE "eq"
      [] a.t = "str" /\ b.t = "str" -> StrCmp(a.s, b.s)
      [] a.t = "list" /\ b.t = "list" -> SeqCmp(a.l, b.l)
      [] OTHER -> "TypeError"

\* Lists and tuples compare by their first differing element, then by length.
SeqCmp(x, y) ==
    IF x = <<>> /\ y = <<>> THEN "eq"
    ELSE IF x = <<>> THEN "lt"
    ELSE IF y = <<>> THEN "gt"
    ELSE IF Head(x) = Head(y) THEN SeqCmp(Tail(x), Tail(y))
    ELSE PyCmp(Head(x), Head(y))

\* An insertion that puts keys[i] before the elements equal to it: a sort that is
\* not stable.
InsertIndexBeforeEqual(acc, i, keys) ==
    LET k == Cardinality({j \in 1..Len(acc) : PyCmp(keys[i], keys[acc[j]]) = "gt"})
    IN  SubSeq(acc, 1, k) \o <<i>> \o SubSeq(acc, k + 1, Len(acc))

\* The stable insertion point of keys[i] in acc (indices into keys, already sorted):
\* after every element that is not greater than it.
InsertIndex(acc, i, keys) ==
    LET k == Cardinality({j \in 1..Len(acc) : PyCmp(keys[i], keys[acc[j]]) # "lt"})
    IN  SubSeq(acc, 1, k) \o <<i>> \o SubSeq(acc, k + 1, Len(acc))

RECURSIVE SortFrom(_, _, _)
SortFrom(keys, i, acc) ==
    IF i > Len(keys) THEN acc
    ELSE SortFrom(keys, i + 1, InsertIndex(acc, i, keys))

\* The items in the order of the indices idx.
Permute(items, idx) == [i \in 1..Len(items) |-> items[idx[i]]]

\* sorted(items, key=...) / list.sort(key=...): a stable sort.  keys[i] is the key
\* of items[i], computed once per item (keys \o <<>> is keys, evaluated); the
\* result lists the items by ascending key, equal keys in input order.
SortedByKey(items, keys) == Permute(items, SortFrom(keys \o <<>>, 1, <<>>))

\* A function checked on its own: no directory tree, no command line, no tool, and
\* nothing produced by a run.
NoRun ==
    /\ tree = {}
    /\ links = <<>>
    /\ args = <<>>
    /\ tools = <<>>
    /\ cover_source = PyNone
    /\ cover = PyNone
    /\ written = <<>>
    /\ exit_code = PyNone
    /\ stderr = <<>>
    /\ summary = <<>>
    /\ sort_keys = <<>>
    /\ probed = <<>>

---------------------------------------------------------------------------
(* propose_m4b_order.py                                                    *)

\* The longest prefix of text made of digits (digits = TRUE) or of non-digits.
RECURSIVE RunLen(_, _)
RunLen(text, digits) ==
    IF text = <<>> \/ IsDigit(Head(text)) # digits THEN 0
    ELSE 1 + RunLen(Tail(text), digits)

\* re.split(r"(\d+)", text): non-digit run, digit run, non-digit run, ...; it
\* begins and ends with a (possibly empty) non-digit run.
RECURSIVE ReSplitDigits(_, _)
ReSplitDigits(text, digits) ==
    LET k    == RunLen(text, digits)
        part == SubSeq(text, 1, k)
        rest == SubSeq(text, k + 1, Len(text))
    IN  IF rest = <<>> /\ ~digits THEN <<part>>
        ELSE <<part>> \o ReSplitDigits(rest, ~digits)

\* natural_key(text): digit runs as int, the other runs lowercased.
natural_key(text) ==
    LET parts == ReSplitDigits(text, FALSE)
    IN  PyList([i \in 1..Len(parts) |->
                  IF IsDigitStr(parts[i]) THEN PyInt(IntOf(parts[i]))
                  ELSE PyStr(Lower(parts[i]))])

\* re.search(r"\d+", text).group(0): the first digit run of text, <<>> when none.
RECURSIVE FirstDigitRun(_)
FirstDigitRun(text) ==
    IF text = <<>> THEN <<>>
    ELSE IF IsDigit(Head(text)) THEN SubSeq(text, 1, RunLen(text, TRUE))
    ELSE FirstDigitRun(Tail(text))

\* parse_index with re.match in place of re.search: a text that does not begin with
\* a digit has no index.
parse_index_LeadingOnly(value) ==
    CASE value.t = "none" -> PyNone
      [] value.t = "int"  -> PyInt(value.n)
      [] OTHER ->
           LET match == SubSeq(value.s, 1, RunLen(value.s, TRUE))
           IN  IF match = <<>> THEN PyNone ELSE PyInt(IntOf(match))

\* parse_index(value) -> Optional[int]
parse_index(value) ==
    CASE value.t = "none" -> PyNone
      [] value.t = "int"  -> PyInt(value.n)
      [] OTHER ->
           LET match == FirstDigitRun(value.s)
           IN  IF match = <<>> THEN PyNone ELSE PyInt(IntOf(match))

\* A record with no field set: what info.get(key) sees on {}.
EmptyInfo ==
    [TrackNumber |-> PyNone, DiskNumber |-> PyNone, Title |-> PyNone,
     Album |-> PyNone, Artist |-> PyNone, AlbumArtist |-> PyNone,
     CoverArt |-> PyNone, Picture |-> PyNone, APIC |-> PyNone]

\* metadata.get(path, {})
MetadataGet(md, path) == IF path \in DOMAIN md THEN md[path] ELSE EmptyInfo

\* The value compute_order sorts a missing track number by.
MissingTrackSentinel == 1000000000

\* The track of one entry: parse_index(info.get("TrackNumber")).
EntryTrack(md, path) == parse_index(MetadataGet(md, path).TrackNumber)

\* The disc of one entry: parse_index(info.get("DiskNumber")) or 1.
EntryDisc(md, path) ==
    LET d == parse_index(MetadataGet(md, path).DiskNumber)
    IN  IF Truthy(d) THEN d.n ELSE 1

\* compute_order's entries, lines 147-155: (disc, track) of each path, in the order
\* of the list.
Entries(fs, md) ==
    [i \in 1..Len(fs) |-> PyList(<<PyInt(EntryDisc(md, fs[i])), EntryTrack(md, fs[i])>>)]

\* The key of compute_order's sorted(): (disc, track or 10**9, natural_key(relative path)).
OrderKey(md, path) ==
    LET track == EntryTrack(md, path)
    IN  PyList(<<PyInt(EntryDisc(md, path)),
                 PyInt(IF track # PyNone THEN track.n ELSE MissingTrackSentinel),
                 natural_key(path)>>)

WarnMissing == "Some files are missing track numbers; ordering may be incomplete."

WarnNoTracks == "No track numbers detected; falling back to filename order."

\* compute_order without its filename fallback: it sorts by the composite key even
\* when no entry has a track number.
compute_order_AlwaysSort(fs, md) ==
    LET has_track     == \E i \in 1..Len(fs) : EntryTrack(md, fs[i]) # PyNone
        missing_track == \E i \in 1..Len(fs) : EntryTrack(md, fs[i]) = PyNone
    IN  [ordered  |-> SortedByKey(fs, [i \in 1..Len(fs) |-> OrderKey(md, fs[i])]),
         warnings |-> IF ~has_track THEN <<WarnNoTracks>>
                      ELSE IF missing_track THEN <<WarnMissing>> ELSE <<>>]

\* The subsequence of the elements of s that satisfy keep (a set).
RECURSIVE SelectIn(_, _)
SelectIn(s, keep) ==
    IF s = <<>> THEN <<>>
    ELSE IF Head(s) \in keep THEN <<Head(s)>> \o SelectIn(Tail(s), keep)
    ELSE SelectIn(Tail(s), keep)

\* compute_order that leaves the entries without a track number out of the sort.
compute_order_SkipUntracked(fs, md) ==
    LET tracked       == SelectIn(fs, {p \in Range(fs) : EntryTrack(md, p) # PyNone})
        has_track     == tracked # <<>>
        missing_track == Len(tracked) < Len(fs)
    IN  IF has_track
        THEN [ordered  |-> SortedByKey(tracked,
                               [i \in 1..Len(tracked) |-> OrderKey(md, tracked[i])]),
              warnings |-> IF missing_track THEN <<WarnMissing>> ELSE <<>>]
        ELSE [ordered |-> fs, warnings |-> <<WarnNoTracks>>]

\* compute_order that warns of missing track numbers whenever an entry has none,
\* also when no entry has one.
compute_order_WarnEveryMissing(fs, md) ==
    LET has_track     == \E i \in 1..Len(fs) : EntryTrack(md, fs[i]) # PyNone
        missing_track == \E i \in 1..Len(fs) : EntryTrack(md, fs[i]) = PyNone
    IN  IF has_track
        THEN [ordered  |-> SortedByKey(fs, [i \in 1..Len(fs) |-> OrderKey(md, fs[i])]),
              warnings |-> IF missing_track THEN <<WarnMissing>> ELSE <<>>]
        ELSE [ordered |-> fs,
              warnings |-> IF missing_track THEN <<WarnMissing, WarnNoTracks>>
                           ELSE <<WarnNoTracks>>]

\* compute_order(files, metadata, root) -> (ordered, warnings)
compute_order(fs, md) ==
    LET has_track     == \E i \in 1..Len(fs) : EntryTrack(md, fs[i]) # PyNone
        missing_track == \E i \in 1..Len(fs) : EntryTrack(md, fs[i]) = PyNone
    IN  IF has_track
        THEN [ordered  |-> SortedByKey(fs, [i \in 1..Len(fs) |-> OrderKey(md, fs[i])]),
              warnings |-> IF missing_track THEN <<WarnMissing>> ELSE <<>>]
        ELSE [ordered |-> fs, warnings |-> <<WarnNoTracks>>]

\* A pathlib.Path as a value that may also be None.
PyPath(path) == [t |-> "path", n |-> 0, s |-> path, l |-> <<>>]

\* metadata_score(info): the number of truthy fields among the four tags.
metadata_score(info) ==
    Cardinality({key \in {"Title", "Album", "Artist", "AlbumArtist"} : Truthy(info[key])})

\* The loop of choose_metadata_source where a later entry with an equal score
\* replaces the best one (>= for >).
RECURSIVE ChooseLoopLatest(_, _, _, _, _)
ChooseLoopLatest(ord, md, i, best_path, best_score) ==
    IF i > Len(ord) THEN [best_path |-> best_path, best_score |-> best_score]
    ELSE LET score == metadata_score(MetadataGet(md, ord[i]))
         IN  IF score >= best_score
             THEN ChooseLoopLatest(ord, md, i + 1, PyPath(ord[i]), score)
             ELSE ChooseLoopLatest(ord, md, i + 1, best_path, best_score)

\* The loop of choose_metadata_source from entry i on: the first entry with a
\* strictly greater score becomes the best one.
RECURSIVE ChooseLoop(_, _, _, _, _)
ChooseLoop(ord, md, i, best_path, best_score) ==
    IF i > Len(ord) THEN [best_path |-> best_path, best_score |-> best_score]
    ELSE LET score == metadata_score(MetadataGet(md, ord[i]))
         IN  IF score > best_score
             THEN ChooseLoop(ord, md, i + 1, PyPath(ord[i]), score)
             ELSE ChooseLoop(ord, md, i + 1, best_path, best_score)

\* choose_metadata_source(ordered, metadata) -> Optional[Path]
choose_metadata_source(ord, md) ==
    LET r == ChooseLoop(ord, md, 1, PyNone, -1)
    IN  IF r.best_score <= 0 THEN PyNone ELSE r.best_path

---------------------------------------------------------------------------
(* build_m4b_inputs.py                                                     *)

\* The index of the last "/" of text, 0 when it has none.
LastSlash(text) ==
    LET at == {i \in 1..Len(text) : text[i] = 47}
    IN  IF at = {} THEN 0 ELSE CHOOSE i \in at : \A j \in at : j <= i

\* Path.name: the final component.
Name(path) == SubSeq(path, LastSlash(path) + 1, Len(path))

\* str(Path.parent) of a relative path: "." for a path of one component.
Parent(path) ==
    IF LastSlash(path) = 0 THEN <<46>> ELSE SubSeq(path, 1, LastSlash(path) - 1)

\* Path.stem: the name without its last suffix; a dot that leads or ends the
\* name starts no suffix.
stem(path) ==
    LET name == Name(path)
        dots == {i \in 1..Len(name) : name[i] = 46}
        last == IF dots = {} THEN 0 ELSE CHOOSE i \in dots : \A j \in dots : j <= i
    IN  IF 1 < last /\ last < Len(name) THEN SubSeq(name, 1, last - 1) ELSE name

\* probe_duration_ms: int(round(seconds * 1000)), seconds being the text ffprobe
\* prints, here a whole number of microseconds; round() takes a half to the even
\* neighbour.  The float product is taken as exact, which it is for the durations
\* of ProbedMicros.
probe_duration_ms(micros) ==
    LET q == micros \div 1000
        r == micros % 1000
    IN  IF r > 500 \/ (r = 500 /\ q % 2 = 1) THEN q + 1 ELSE q

\* chapter_title_from_dir(path, root): root.name or "Root" for a file directly under
\* the root, else the directory relative to the root.
chapter_title_from_dir(path, rt) ==
    IF Parent(path) = <<46>>
    THEN (IF Name(rt) # <<>> THEN Name(rt) ELSE <<82, 111, 111, 116>>)
    ELSE Parent(path)

\* The loop of build_chapters' file mode with start_ms never advanced.
RECURSIVE FileLoopNoAdvance(_, _, _, _, _)
FileLoopNoAdvance(fs, durations_ms, i, start_ms, chs) ==
    IF i > Len(fs) THEN chs
    ELSE FileLoopNoAdvance(fs, durations_ms, i + 1, start_ms,
             Append(chs, [start |-> start_ms, end |-> start_ms + durations_ms[i],
                          title |-> stem(fs[i])]))

\* The loop of build_chapters' file mode from file i on: one chapter per file.
RECURSIVE FileLoop(_, _, _, _, _)
FileLoop(fs, durations_ms, i, start_ms, chs) ==
    IF i > Len(fs) THEN chs
    ELSE FileLoop(fs, durations_ms, i + 1, start_ms + durations_ms[i],
             Append(chs, [start |-> start_ms, end |-> start_ms + durations_ms[i],
                          title |-> stem(fs[i])]))

\* The first loop of the directory mode with cumulative_ms advanced only where a
\* chapter starts.
RECURSIVE DirLoopAdvanceOnChange(_, _, _, _, _)
DirLoopAdvanceOnChange(fs, rt, durations_ms, i, st) ==
    IF i > Len(fs) THEN st
    ELSE LET dir_title == chapter_title_from_dir(fs[i], rt)
         IN  IF <<dir_title>> # st.current_key
             THEN DirLoopAdvanceOnChange(fs, rt, durations_ms, i + 1,
                      [chapter_titles |-> Append(st.chapter_titles, dir_title),
                       chapter_starts |-> Append(st.chapter_starts, st.cumulative_ms),
                       current_key    |-> <<dir_title>>,
                       cumulative_ms  |-> st.cumulative_ms + durations_ms[i]])
             ELSE DirLoopAdvanceOnChange(fs, rt, durations_ms, i + 1, st)

\* The first loop of the directory mode from file i on.  current_key is <<>> for
\* None and <<title>> for a title.
RECURSIVE DirLoop(_, _, _, _, _)
DirLoop(fs, rt, durations_ms, i, st) ==
    IF i > Len(fs) THEN st
    ELSE LET dir_title == chapter_title_from_dir(fs[i], rt)
             changed   == <<dir_title>> # st.current_key
         IN  DirLoop(fs, rt, durations_ms, i + 1,
                 [chapter_titles |-> IF changed THEN Append(st.chapter_titles, dir_title)
                                     ELSE st.chapter_titles,
                  chapter_starts |-> IF changed THEN Append(st.chapter_starts, st.cumulative_ms)
                                     ELSE st.chapter_starts,
                  current_key    |-> IF changed THEN <<dir_title>> ELSE st.current_key,
                  cumulative_ms  |-> st.cumulative_ms + durations_ms[i]])

\* The second loop of the directory mode: each chapter ends where the next one
\* starts, the last one at total_ms.
DirChapters(st) ==
    [index \in 1..Len(st.chapter_titles) |->
        [start |-> st.chapter_starts[index],
         end   |-> IF index + 1 <= Len(st.chapter_starts)
                   THEN st.chapter_starts[index + 1] ELSE st.cumulative_ms,
         title |-> st.chapter_titles[index]]]

\* build_chapters(files, root, chapter_mode); durs is what ffprobe reports for
\* each file.
build_chapters(fs, rt, mode, durs) ==
    IF mode = "none" THEN <<>>
    ELSE LET durations_ms == [i \in 1..Len(fs) |-> probe_duration_ms(durs[fs[i]])]
         IN  IF mode = "file"
             THEN FileLoop(fs, durations_ms, 1, 0, <<>>)
             ELSE DirChapters(DirLoop(fs, rt, durations_ms, 1,
                      [chapter_titles |-> <<>>, chapter_starts |-> <<>>,
                       current_key |-> <<>>, cumulative_ms |-> 0]))

---------------------------------------------------------------------------
(* Inputs of the ordering engine.                                          *)

\* "a2.m4b", "a10.m4b", "A2.m4b", "b.m4b"
OrderPaths ==
    { <<97, 50, 46, 109, 52, 98>>,
      <<97, 49, 48, 46, 109, 52, 98>>,
      <<65, 50, 46, 109, 52, 98>>,
      <<98, 46, 109, 52, 98>> }

\* A record with TrackNumber tr and DiskNumber d as the probes report them:
\* absent, a JSON number, or text.
TrackDisc(tr, d) == [EmptyInfo EXCEPT !.TrackNumber = tr, !.DiskNumber = d]

\* Tracks absent, 1, "2/12" and BigTrack with no disc; track 1 and no track on disc 2.
OrderRecords ==
    { TrackDisc(PyNone, PyNone),
      TrackDisc(PyInt(1), PyNone),
      TrackDisc(PyStr(<<50, 47, 49, 50>>), PyNone),
      TrackDisc(PyInt(BigTrack), PyNone),
      TrackDisc(PyInt(1), PyInt(2)),
      TrackDisc(PyNone, PyInt(2)) }

InitOrder ==
    /\ files \in DistinctSeqs(OrderPaths, MaxFiles)
    /\ \E present \in SUBSET Range(files) : metadata \in [present -> OrderRecords]
    /\ root = <<47, 98, 107>>
    /\ durations = <<>>
    /\ chapter_mode = "none"
    /\ ordered = <<>>
    /\ first_ordered = <<>>
    /\ warnings = <<>>
    /\ metadata_source = PyNone
    /\ chapters = <<>>
    /\ pc = "input"
    /\ NoRun

\* ordered, warnings = compute_order(files, metadata, root)
ComputeOrder ==
    /\ pc = "input"
    /\ \E r \in {compute_order(files, metadata)} :
           /\ ordered' = r.ordered
           /\ first_ordered' = r.ordered
           /\ warnings' = r.warnings
    /\ sort_keys' = Entries(files, metadata)
    /\ pc' = "ordered"
    /\ UNCHANGED <<files, metadata, root, durations, chapter_mode, metadata_source,
                   chapters, env, out>>

\* compute_order run again, on its own output and the same metadata.
RecomputeOrder ==
    /\ pc = "ordered"
    /\ \E r \in {compute_order(ordered, metadata)} :
           /\ ordered' = r.ordered
           /\ warnings' = r.warnings
    /\ sort_keys' = Entries(ordered, metadata)
    /\ pc' = "reordered"
    /\ UNCHANGED <<files, metadata, root, durations, chapter_mode, first_ordered,
                   metadata_source, chapters, env, out>>

Next == ComputeOrder \/ RecomputeOrder

Spec == InitOrder /\ [][Next]_vars

---------------------------------------------------------------------------
(* Properties of the ordering engine, checked under Spec.                  *)

\* compute_order has returned.
Ordered == pc \in {"ordered", "reordered"}

HasTrack(p) == EntryTrack(metadata, p) # PyNone

AnyTrack == \E p \in Range(files) : HasTrack(p)

\* The disc number of the specification: the parsed DiskNumber, 1 when it is
\* absent or unparsable.
SpecDisc(p) ==
    LET d == parse_index(MetadataGet(metadata, p).DiskNumber)
    IN  IF d = PyNone THEN 1 ELSE d.n

\* p is not after q in the natural order of the relative paths.
NaturalLeq(p, q) == PyCmp(natural_key(p), natural_key(q)) \in {"lt", "eq"}

NaturallyOrdered(s) == \A i \in 1..(Len(s) - 1) : NaturalLeq(s[i], s[i + 1])

\* The composite key of p is less than or equal to that of q: disc ascending, then
\* track ascending with a missing track after every real one, then natural order.
CompositeLeq(p, q) ==
    \/ SpecDisc(p) < SpecDisc(q)
    \/ /\ SpecDisc(p) = SpecDisc(q)
       /\ \/ HasTrack(p) /\ ~HasTrack(q)
          \/ /\ HasTrack(p) /\ HasTrack(q)
             /\ EntryTrack(metadata, p).n < EntryTrack(metadata, q).n
          \/ /\ HasTrack(p) = HasTrack(q)
             /\ EntryTrack(metadata, p) = EntryTrack(metadata, q)
             /\ NaturalLeq(p, q)

IsPermutation(s, t) ==
    /\ Len(s) = Len(t)
    /\ \A x \in Range(t) : Cardinality({i \in 1..Len(s) : s[i] = x}) = 1

\* C1: when some entry has a track number, every two adjacent entries of the
\* returned order are in the order of the composite key (disc, track with missing
\* tracks last, natural path).
C1_AdjacentByCompositeKey ==
    (Ordered /\ AnyTrack) =>
        \A i \in 1..(Len(ordered) - 1) : CompositeLeq(ordered[i], ordered[i + 1])

\* C2 as stated: when no entry has a track number, the returned order is the
\* natural-path order of the catalog, whatever order the catalog came in.
C2_FallbackIsNaturalOrder ==
    (Ordered /\ ~AnyTrack) => (IsPermutation(ordered, files) /\ NaturallyOrdered(ordered))

\* C2 amended: when no entry has a track number and the catalog is in natural-path
\* order (as collect_files returns it), the returned order is that catalog, in
\* natural-path order, whatever the disc numbers.
C2_FallbackKeepsNaturalCatalog ==
    (Ordered /\ ~AnyTrack /\ NaturallyOrdered(files)) =>
        (ordered = files /\ NaturallyOrdered(ordered))

\* C2 witness: three files in natural order, none with a track number, whose disc
\* numbers go against that order, after compute_order.
C2_Witness ==
    /\ pc = "ordered"
    /\ ~AnyTrack
    /\ Len(files) = 3
    /\ NaturallyOrdered(files)
    /\ SpecDisc(files[1]) > SpecDisc(files[3])
    /\ ordered = files

\* C3: within one disc, an entry without a track number comes after every entry
\* that has one.
C3_MissingTrackLast ==
    Ordered =>
        \A i, j \in 1..Len(ordered) :
            ( /\ SpecDisc(ordered[i]) = SpecDisc(ordered[j])
              /\ HasTrack(ordered[i])
              /\ ~HasTrack(ordered[j]) ) => i < j

\* C4: compute_order run on its own output, with the same metadata, returns that
\* output unchanged.
C4_Idempotent == (pc = "reordered") => (ordered = first_ordered)

\* C4 witness: a second run over a first output that the sort had reordered and
\* that holds two entries with equal keys.
C4_Witness ==
    /\ pc = "reordered"
    /\ AnyTrack
    /\ first_ordered # files
    /\ \E i \in 1..(Len(ordered) - 1) :
           OrderKey(metadata, ordered[i]) = OrderKey(metadata, ordered[i + 1])

\* C5: the returned sequence is a permutation of the catalog: every entry exactly
\* once, so positions 0..n-1 rank the entries strictly and without gaps.
C5_Permutation == Ordered => IsPermutation(ordered, files)

\* C5 witness: a tag-sorted result that reorders a catalog holding an entry
\* without a track number.
C5_Witness ==
    /\ pc = "ordered"
    /\ AnyTrack
    /\ \E p \in Range(files) : ~HasTrack(p)
    /\ Len(files) = 3
    /\ ordered # files

---------------------------------------------------------------------------
(* The chapter builder as a function of its inputs.                        *)

\* "1.mp3", "sub/1.mp3", "sub/2.mp3", "sub/v1.2.mp3"
ChapterPaths ==
    { <<49, 46, 109, 112, 51>>,
      <<115, 117, 98, 47, 49, 46, 109, 112, 51>>,
      <<115, 117, 98, 47, 50, 46, 109, 112, 51>>,
      <<115, 117, 98, 47, 118, 49, 46, 50, 46, 109, 112, 51>> }

\* "/" (a root without a name), "/sub" (named like a directory under it), "/bk"
Roots == { <<47>>, <<47, 115, 117, 98>>, <<47, 98, 107>> }

\* Probed durations in microseconds: 0.0004 s, 0.0015 s, 30 s, 90 s.
ProbedMicros == { 400, 1500, 30000000, 90000000 }

InitChapters ==
    /\ files \in DistinctSeqs(ChapterPaths, MaxFiles)
    /\ durations \in [Range(files) -> ProbedMicros]
    /\ root \in Roots
    /\ chapter_mode \in {"dir", "file", "none"}
    /\ metadata = <<>>
    /\ ordered = <<>>
    /\ first_ordered = <<>>
    /\ warnings = <<>>
    /\ metadata_source = PyNone
    /\ chapters = <<>>
    /\ pc = "input"
    /\ NoRun

\* chapters = build_chapters(files, root, chapter_mode)
BuildChapters ==
    /\ pc = "input"
    /\ chapters' = build_chapters(files, root, chapter_mode, durations)
    /\ pc' = "chapters"
    /\ UNCHANGED <<sort_keys, files, metadata, root, durations, chapter_mode, ordered,
                   first_ordered, warnings, metadata_source, env, out>>

NextChapters == BuildChapters

SpecChapters == InitChapters /\ [][NextChapters]_vars

\* build_chapters has returned chapters for a non-empty list.
Built == pc = "chapters" /\ files # <<>> /\ chapter_mode # "none"

\* The millisecond duration of file i of the list.
FileMs(i) == probe_duration_ms(durations[files[i]])

\* The sum of the millisecond durations of the first n files.
RECURSIVE SumMs(_)
SumMs(n) == IF n = 0 THEN 0 ELSE SumMs(n - 1) + FileMs(n)

\* C6: for a non-empty list and a mode other than none, the first chapter starts
\* at 0, each chapter ends where the next starts, and the last one ends at the sum
\* of the files' millisecond durations.
C6_Partition ==
    Built =>
        /\ chapters # <<>>
        /\ chapters[1].start = 0
        /\ \A i \in 1..(Len(chapters) - 1) : chapters[i].end = chapters[i + 1].start
        /\ chapters[Len(chapters)].end = SumMs(Len(files))

\* C6 witness: directory mode over three files that leave and re-enter a
\* directory, the chapters covering more than zero milliseconds.
C6_Witness ==
    /\ Built
    /\ chapter_mode = "dir"
    /\ Len(files) = 3
    /\ Len(chapters) = 3
    /\ chapters[1].end > 0
    /\ chapters[3].end > chapters[3].start

\* C7: every chapter has start >= 0 and end > start.
C7_ChaptersNotEmpty ==
    (pc = "chapters") =>
        \A i \in 1..Len(chapters) : chapters[i].start >= 0 /\ chapters[i].end > chapters[i].start

\* The number of places of the list where the directory differs from the one of
\* the entry before.
DirChanges == Cardinality({i \in 2..Len(files) : Parent(files[i]) # Parent(files[i - 1])})

\* C8: in directory mode there is one chapter for the first entry and one more
\* for every entry whose directory differs from the previous entry's.
C8_ChapterPerDirChange ==
    (Built /\ chapter_mode = "dir") => Len(chapters) = 1 + DirChanges

\* C9: in file mode there is one chapter per file, in order; chapter i starts at
\* the sum of the durations of the files before file i, lasts file i's duration,
\* and its title followed by the extension is file i's name.
C9_ChapterPerFile ==
    (Built /\ chapter_mode = "file") =>
        /\ Len(chapters) = Len(files)
        /\ \A i \in 1..Len(files) :
              /\ chapters[i].start = SumMs(i - 1)
              /\ chapters[i].end = SumMs(i - 1) + FileMs(i)
              /\ chapters[i].title \o <<46, 109, 112, 51>> = Name(files[i])

\* C9 witness: files of 30 s and 90 s give (0, 30000) and (30000, 120000).
C9_Witness ==
    /\ Built
    /\ chapter_mode = "file"
    /\ Len(files) = 2
    /\ durations[files[1]] = 30000000
    /\ durations[files[2]] = 90000000
    /\ chapters[1].start = 0 /\ chapters[1].end = 30000
    /\ chapters[2].start = 30000 /\ chapters[2].end = 120000

---------------------------------------------------------------------------
(* The metadata source selector as a function of its inputs.               *)

\* A record with the four tags given.
Tags(title, album, artist, album_artist) ==
    [EmptyInfo EXCEPT !.Title = title, !.Album = album, !.Artist = artist,
                      !.AlbumArtist = album_artist]

\* Records with no tag, an empty title, a title, title and album, the two artist
\* tags, and all four tags ("x" is the text of every tag that is set).
SelectRecords ==
    LET x == PyStr(<<120>>)
    IN  { Tags(PyNone, PyNone, PyNone, PyNone),
          Tags(PyStr(<<>>), PyNone, PyNone, PyNone),
          Tags(x, PyNone, PyNone, PyNone),
          Tags(x, x, PyNone, PyNone),
          Tags(PyNone, PyNone, x, x),
          Tags(x, x, x, x) }

InitSelect ==
    /\ ordered \in DistinctSeqs(OrderPaths, MaxFiles)
    /\ \E present \in SUBSET Range(ordered) : metadata \in [present -> SelectRecords]
    /\ files = ordered
    /\ root = <<47, 98, 107>>
    /\ durations = <<>>
    /\ chapter_mode = "none"
    /\ first_ordered = ordered
    /\ warnings = <<>>
    /\ metadata_source = PyNone
    /\ chapters = <<>>
    /\ pc = "ordered"
    /\ NoRun

\* metadata_source = choose_metadata_source(ordered, metadata)
ChooseMetadataSource ==
    /\ pc = "ordered"
    /\ metadata_source' = choose_metadata_source(ordered, metadata)
    /\ pc' = "selected"
    /\ UNCHANGED <<sort_keys, files, metadata, root, durations, chapter_mode, ordered,
                   first_ordered, warnings, chapters, env, out>>

NextSelect == ChooseMetadataSource

SpecSelect == InitSelect /\ [][NextSelect]_vars

\* A tag is present when the record has it and it is not the empty text.
Present(v) == v # PyNone /\ v # PyStr(<<>>)

\* The number of present tags of entry i of the play order (an entry without a
\* record has none).
ScoreAt(i) ==
    IF ordered[i] \notin DOMAIN metadata THEN 0
    ELSE LET info == metadata[ordered[i]]
         IN  (IF Present(info.Title) THEN 1 ELSE 0) + (IF Present(info.Album) THEN 1 ELSE 0)
             + (IF Present(info.Artist) THEN 1 ELSE 0)
             + (IF Present(info.AlbumArtist) THEN 1 ELSE 0)

\* The greatest score of the play order, 0 for an empty one.
MaxScore ==
    IF ordered = <<>> THEN 0
    ELSE CHOOSE m \in 0..4 :
           /\ \E i \in 1..Len(ordered) : ScoreAt(i) = m
           /\ \A i \in 1..Len(ordered) : ScoreAt(i) <= m

\* C10: the selector returns none exactly when the greatest count of present tags
\* is 0, and otherwise the earliest entry of the play order that has the greatest
\* count.
C10_MostCompleteEarliest ==
    (pc = "selected") =>
        /\ (metadata_source = PyNone) <=> (MaxScore = 0)
        /\ MaxScore > 0 =>
              \E i \in 1..Len(ordered) :
                  /\ metadata_source = PyPath(ordered[i])
                  /\ ScoreAt(i) = MaxScore
                  /\ \A j \in 1..(i - 1) : ScoreAt(j) < MaxScore

\* C10 witness: scores 2, 4, 1 in play order; the entry with score 4 is selected.
C10_Witness ==
    /\ pc = "selected"
    /\ Len(ordered) = 3
    /\ ScoreAt(1) = 2 /\ ScoreAt(2) = 4 /\ ScoreAt(3) = 1
    /\ metadata_source = PyPath(ordered[2])

---------------------------------------------------------------------------
(* Cover selection: propose_m4b_order.choose_cover_source and              *)
(* cover_art.extract_cover.  The two scripts have the same DEFAULT_IMAGE_  *)
(* NAMES and the same find_sidecar text, each over its own natural_key.    *)

\* "cover.jpg", "cover.jpeg", "folder.jpg", "front.jpg", "artwork.jpg", "cover.png",
\* "folder.png", "front.png", "artwork.png"
DEFAULT_IMAGE_NAMES ==
    { <<99, 111, 118, 101, 114, 46, 106, 112, 103>>,
      <<99, 111, 118, 101, 114, 46, 106, 112, 101, 103>>,
      <<102, 111, 108, 100, 101, 114, 46, 106, 112, 103>>,
      <<102, 114, 111, 110, 116, 46, 106, 112, 103>>,
      <<97, 114, 116, 119, 111, 114, 107, 46, 106, 112, 103>>,
      <<99, 111, 118, 101, 114, 46, 112, 110, 103>>,
      <<102, 111, 108, 100, 101, 114, 46, 112, 110, 103>>,
      <<102, 114, 111, 110, 116, 46, 112, 110, 103>>,
      <<97, 114, 116, 119, 111, 114, 107, 46, 112, 110, 103>> }

\* Path.suffix: the name from its last dot on; a dot that leads or ends the name
\* starts no suffix.
suffix(path) ==
    LET name == Name(path)
        dots == {i \in 1..Len(name) : name[i] = 46}
        last == IF dots = {} THEN 0 ELSE CHOOSE i \in dots : \A j \in dots : j <= i
    IN  IF 1 < last /\ last < Len(name) THEN SubSeq(name, last, Len(name)) ELSE <<>>

\* The files root.rglob("*") (recursive) or root.iterdir() yields, as a set.
Candidates(tr, recursive) == IF recursive THEN tr ELSE {p \in tr : LastSlash(p) = 0}

\* The order in which the file system lists a set of entries: one order, which no
\* caller may rely on (every caller sorts the listing).
RECURSIVE Listing(_)
Listing(S) ==
    IF S = {} THEN <<>>
    ELSE LET p == CHOOSE q \in S : TRUE IN <<p>> \o Listing(S \ {p})

\* has_embedded_cover(info): one of CoverArt, Picture, APIC is truthy.
has_embedded_cover(info) ==
    Truthy(info.CoverArt) \/ Truthy(info.Picture) \/ Truthy(info.APIC)

\* propose_m4b_order.find_sidecar(root, recursive, names) -> Optional[Path]
find_sidecar(tr, recursive, names) ==
    LET matches == Listing({p \in Candidates(tr, recursive) : Lower(Name(p)) \in names})
    IN  IF matches = <<>> THEN PyNone
        ELSE PyPath(SortedByKey(matches,
                                [i \in 1..Len(matches) |-> natural_key(matches[i])])[1])

\* The first path of ord from index i on whose record has an embedded cover, as
\* the text "embedded:<relative path>"; None when there is none.
RECURSIVE EmbeddedLoop(_, _, _)
EmbeddedLoop(ord, md, i) ==
    IF i > Len(ord) THEN PyNone
    ELSE IF has_embedded_cover(MetadataGet(md, ord[i]))
         THEN PyStr(<<101, 109, 98, 101, 100, 100, 101, 100, 58>> \o ord[i])
         ELSE EmbeddedLoop(ord, md, i + 1)

\* A choose_cover_source that looks at the embedded covers before the sidecars.
choose_cover_source_EmbeddedFirst(tr, recursive, ord, md, image_names) ==
    LET sidecar  == find_sidecar(tr, recursive, image_names)
        embedded == EmbeddedLoop(ord, md, 1)
    IN  IF embedded # PyNone THEN embedded
        ELSE IF sidecar # PyNone THEN PyStr(<<115, 105, 100, 101, 99, 97, 114, 58>> \o sidecar.s)
        ELSE PyNone

\* choose_cover_source(root, recursive, ordered, metadata, image_names) -> Optional[str]
choose_cover_source(tr, recursive, ord, md, image_names) ==
    LET sidecar == find_sidecar(tr, recursive, image_names)
    IN  IF sidecar # PyNone THEN PyStr(<<115, 105, 100, 101, 99, 97, 114, 58>> \o sidecar.s)
        ELSE EmbeddedLoop(ord, md, 1)
\* cover_art.py: DEFAULT_AUDIO_EXTENSIONS
\* ".m4b", ".m4a", ".mp3", ".aac", ".flac", ".ogg", ".wav"
DEFAULT_AUDIO_EXTENSIONS ==
    { <<46, 109, 52, 98>>,
      <<46, 109, 52, 97>>,
      <<46, 109, 112, 51>>,
      <<46, 97, 97, 99>>,
      <<46, 102, 108, 97, 99>>,
      <<46, 111, 103, 103>>,
      <<46, 119, 97, 118>> }

\* cover_art.py: EXIFTOOL_TAGS
EXIFTOOL_TAGS == <<"CoverArt", "Picture", "APIC">>

\* re.split(r"(\\d+)", text) as cover_art.natural_key calls it: in a raw string the
\* pattern is a backslash followed by one or more letters d, so the text is cut at
\* each such run, which is kept as a part; digits cut nothing.
RECURSIVE ReSplitBackslashD(_)
ReSplitBackslashD(text) ==
    LET at == {i \in 1..(Len(text) - 1) : text[i] = 92 /\ text[i + 1] = 100}
    IN  IF at = {} THEN <<text>>
        ELSE LET i == CHOOSE k \in at : \A m \in at : k <= m
                 j == CHOOSE k \in (i + 1)..Len(text) :
                        /\ \A m \in (i + 1)..k : text[m] = 100
                        /\ (k = Len(text) \/ text[k + 1] # 100)
             IN  <<SubSeq(text, 1, i - 1), SubSeq(text, i, j)>>
                 \o ReSplitBackslashD(SubSeq(text, j + 1, Len(text)))

\* cover_art.natural_key(text): the parts of the split, an all-digit part as int,
\* any other part lowercased.
cover_art_natural_key(text) ==
    LET parts == ReSplitBackslashD(text)
    IN  PyList([i \in 1..Len(parts) |->
                  IF IsDigitStr(parts[i]) THEN PyInt(IntOf(parts[i]))
                  ELSE PyStr(Lower(parts[i]))])

\* cover_art.collect_files(root, recursive, extensions): the files of the scope
\* with a suffix of the list, sorted by cover_art.natural_key of the relative path.
cover_art_collect_files(tr, recursive, extensions) ==
    LET found == Listing({p \in Candidates(tr, recursive) : Lower(suffix(p)) \in extensions})
    IN  SortedByKey(found, [i \in 1..Len(found) |-> cover_art_natural_key(found[i])])

\* cover_art.find_sidecar(root, recursive, names) -> Optional[Path]
cover_art_find_sidecar(tr, recursive, names) ==
    LET matches == Listing({p \in Candidates(tr, recursive) : Lower(Name(p)) \in names})
    IN  IF matches = <<>> THEN PyNone
        ELSE PyPath(SortedByKey(matches,
                      [i \in 1..Len(matches) |-> cover_art_natural_key(matches[i])])[1])

\* extract_cover_with_exiftool(source, output): the tags of EXIFTOOL_TAGS for which
\* "exiftool -b -<tag> source" prints bytes are the truthy ones of the file's
\* record; the bytes of each such tag in turn are written to output until the
\* file is not empty, which it is after the first.  The result is the tag written,
\* "" when there is none (the function returns False).
extract_cover_with_exiftool(md, source) ==
    LET info == MetadataGet(md, source)
        hits == {k \in 1..Len(EXIFTOOL_TAGS) : Truthy(info[EXIFTOOL_TAGS[k]])}
    IN  IF hits = {} THEN "" ELSE EXIFTOOL_TAGS[CHOOSE k \in hits : \A m \in hits : k <= m]

\* audio_files.sort(key=lambda p: (0 if p.suffix.lower() == ".m4b" else 1,
\*                                 natural_key(str(p.relative_to(root)))))
AudioSortKey(path) ==
    PyList(<<PyInt(IF Lower(suffix(path)) = <<46, 109, 52, 98>> THEN 0 ELSE 1),
             cover_art_natural_key(path)>>)

\* The for loop of extract_cover: the first file of audio_files from index i on
\* from which a cover is extracted, with the tag; path <<>> when there is none.
RECURSIVE ExtractLoop(_, _, _)
ExtractLoop(audio_files, md, i) ==
    IF i > Len(audio_files) THEN [kind |-> "none", path |-> <<>>, tag |-> ""]
    ELSE LET tag == extract_cover_with_exiftool(md, audio_files[i])
         IN  IF tag # "" THEN [kind |-> "embedded", path |-> audio_files[i], tag |-> tag]
             ELSE ExtractLoop(audio_files, md, i + 1)

\* extract_cover(root, recursive, output, image_names, extensions): the source whose
\* bytes end up in output: the sidecar image, else, with exiftool installed, the first audio file of the sorted list
\* that yields a cover; kind "none" when the function returns None.  exiftool is
\* shutil.which("exiftool").
extract_cover(tr, recursive, image_names, extensions, md, exiftool) ==
    LET sidecar     == cover_art_find_sidecar(tr, recursive, image_names)
        audio_files == cover_art_collect_files(tr, recursive, extensions)
    IN  IF sidecar # PyNone THEN [kind |-> "sidecar", path |-> sidecar.s, tag |-> ""]
        ELSE IF ~exiftool THEN [kind |-> "none", path |-> <<>>, tag |-> ""]
        ELSE ExtractLoop(SortedByKey(audio_files,
                           [i \in 1..Len(audio_files) |-> AudioSortKey(audio_files[i])]), md, 1)
\* embed_cover(cover, target): True when AtomicParsley is installed and exits 0.
embed_cover(atomic_parsley) == atomic_parsley = "ok"

\* propose_m4b_order.py: DEFAULT_EXTENSIONS
DEFAULT_EXTENSIONS == { <<46, 109, 52, 98>> }

\* A line printed to stderr: its fixed text and the path it names (<<>> when none).
Msg(text) == [msg |-> text, path |-> <<>>]

MsgFor(text, path) == [msg |-> text, path |-> path]

\* The absolute path of a path relative to the root rt.
Abs(rt, rel) == IF rt = <<47>> THEN rt \o rel ELSE rt \o <<47>> \o rel

---------------------------------------------------------------------------
(* Cover selection over small directory trees.                             *)

\* "cover.jpg", "disc2/Cover.JPG", "disc10/cover.jpg"
CoverImages ==
    { <<99, 111, 118, 101, 114, 46, 106, 112, 103>>,
      <<100, 105, 115, 99, 50, 47, 67, 111, 118, 101, 114, 46, 74, 80, 71>>,
      <<100, 105, 115, 99, 49, 48, 47, 99, 111, 118, 101, 114, 46, 106, 112, 103>> }

\* "a2.m4b", "a10.m4b", "1.mp3", "sub/b.m4b"
CoverAudio ==
    { <<97, 50, 46, 109, 52, 98>>,
      <<97, 49, 48, 46, 109, 52, 98>>,
      <<49, 46, 109, 112, 51>>,
      <<115, 117, 98, 47, 98, 46, 109, 52, 98>> }

\* The records of a file with an empty CoverArt tag and of a file with an APIC tag
\* (exiftool prints "(Binary data 9 bytes)", here "x").
CoverRecords ==
    { [EmptyInfo EXCEPT !.CoverArt = PyStr(<<>>)],
      [EmptyInfo EXCEPT !.APIC = PyStr(<<120>>)] }

\* The orders of the elements of S.
Orders(S) == { s \in DistinctSeqs(S, Cardinality(S)) : Len(s) = Cardinality(S) }

\* ".m4b" and ".mp3", as --extensions m4b,mp3 gives them
M4bMp3 == { <<46, 109, 52, 98>>, <<46, 109, 112, 51>> }

\* "/out/cover.jpg", an --output outside the root
CoverOutput == <<47, 111, 117, 116, 47, 99, 111, 118, 101, 114, 46, 106, 112, 103>>

\* "/bk/a2.m4b", the --embed target: it exists when a2.m4b is in the tree
EmbedTarget == <<47, 98, 107, 47, 97, 50, 46, 109, 52, 98>>

\* Either choose_cover_source is about to be called by propose_m4b_order.main,
\* with any play order of the collected files, or cover_art.main starts.
InitCover ==
    /\ root = <<47, 98, 107>>
    /\ \E imgs \in SUBSET CoverImages :
       \E audio \in { S \in SUBSET CoverAudio : Cardinality(S) <= MaxFiles } :
           /\ tree = imgs \cup audio
           /\ \E present \in SUBSET audio : metadata \in [present -> CoverRecords]
    /\ links = <<>>
    /\ \/ /\ pc = "choose_cover"
          /\ args \in [recursive : BOOLEAN, image_names : {DEFAULT_IMAGE_NAMES},
                       extensions : {DEFAULT_EXTENSIONS, M4bMp3},
                       output : {PyNone}, embed : {PyNone}]
          /\ tools = [exiftool |-> TRUE, AtomicParsley |-> "ok"]
          /\ ordered \in Orders({ p \in Candidates(tree, args.recursive) :
                                    Lower(suffix(p)) \in args.extensions })
       \/ /\ pc = "cover_art"
          /\ args \in [recursive : BOOLEAN, image_names : {DEFAULT_IMAGE_NAMES},
                       extensions : {DEFAULT_AUDIO_EXTENSIONS},
                       output : {PyPath(CoverOutput)},
                       embed : {PyNone, PyPath(EmbedTarget)}]
          /\ tools \in [exiftool : BOOLEAN, AtomicParsley : {"missing", "fails", "ok"}]
          /\ ordered = <<>>
    /\ files = ordered
    /\ first_ordered = ordered
    /\ durations = <<>>
    /\ chapter_mode = "none"
    /\ warnings = <<>>
    /\ metadata_source = PyNone
    /\ chapters = <<>>
    /\ cover_source = PyNone
    /\ cover = PyNone
    /\ written = <<>>
    /\ exit_code = PyNone
    /\ stderr = <<>>
    /\ summary = <<>>
    /\ sort_keys = <<>>
    /\ probed = <<>>

\* propose_m4b_order.main: cover_source = choose_cover_source(root, args.recursive,
\* ordered, metadata, image_names)
ChooseCoverSource ==
    /\ pc = "choose_cover"
    /\ cover_source' = choose_cover_source(tree, args.recursive, ordered, metadata,
                                           args.image_names)
    /\ pc' = "cover_chosen"
    /\ UNCHANGED <<sort_keys, files, metadata, root, durations, chapter_mode, ordered,
                   first_ordered, warnings, metadata_source, chapters, env, cover, written,
                   exit_code, stderr, summary, probed>>

\* cover_art.main up to "Cover art saved": extract_cover, which writes the output
\* file (the copy is skipped when the sidecar is the output file itself), and the
\* return of 2 when it found no cover.
CoverArtExtract ==
    /\ pc = "cover_art"
    /\ \E src \in {extract_cover(tree, args.recursive, args.image_names, args.extensions,
                                 metadata, tools.exiftool)} :
           IF src.kind = "none"
           THEN /\ cover' = PyNone
                /\ stderr' = Append(stderr, Msg("No cover art found in sidecar images or embedded metadata."))
                /\ exit_code' = PyInt(2)
                /\ pc' = "cover_exit"
                /\ UNCHANGED written
           ELSE /\ cover' = args.output
                /\ written' = IF src.kind = "sidecar" /\ Abs(root, src.path) = args.output.s
                              THEN written
                              ELSE (args.output.s :> src) @@ written
                /\ pc' = "cover_saved"
                /\ UNCHANGED <<stderr, exit_code>>
    /\ UNCHANGED <<sort_keys, files, metadata, root, durations, chapter_mode, ordered,
                   first_ordered, warnings, metadata_source, chapters, env, cover_source,
                   summary, probed>>

\* cover_art.main after "Cover art saved": the --embed option.
CoverArtEmbed ==
    /\ pc = "cover_saved"
    /\ pc' = "cover_exit"
    /\ IF args.embed = PyNone
       THEN /\ exit_code' = PyInt(0)
            /\ UNCHANGED <<stderr, written>>
       ELSE IF \A p \in tree : Abs(root, p) # args.embed.s
       THEN /\ stderr' = Append(stderr, Msg("Target M4B not found"))
            /\ exit_code' = PyInt(3)
            /\ UNCHANGED written
       ELSE IF ~embed_cover(tools.AtomicParsley)
       THEN /\ stderr' = Append(stderr, Msg("AtomicParsley failed to embed cover art."))
            /\ exit_code' = PyInt(4)
            /\ UNCHANGED written
       ELSE /\ written' = (args.embed.s :> [kind |-> "artwork", path |-> cover.s, tag |-> ""])
                          @@ written
            /\ exit_code' = PyInt(0)
            /\ UNCHANGED stderr
    /\ UNCHANGED <<sort_keys, files, metadata, root, durations, chapter_mode, ordered,
                   first_ordered, warnings, metadata_source, chapters, env, cover_source,
                   cover, summary, probed>>

NextCover == ChooseCoverSource \/ CoverArtExtract \/ CoverArtEmbed

SpecCover == InitCover /\ [][NextCover]_vars

\* A path is in the scanned scope: anywhere under the root in a recursive scan,
\* directly under it otherwise.
InScope(p) == args.recursive \/ \A i \in 1..Len(p) : p[i] # 47

\* The last component of a relative path.
LastComponent(p) ==
    IF \E i \in 1..Len(p) : p[i] = 47
    THEN LET i == CHOOSE k \in 1..Len(p) : p[k] = 47 /\ \A m \in (k + 1)..Len(p) : p[m] # 47
         IN  SubSeq(p, i + 1, Len(p))
    ELSE p

\* The files of the scope whose lowercased name is in the sidecar-name set.
SidecarMatches == { p \in tree : InScope(p) /\ Lower(LastComponent(p)) \in args.image_names }

\* The file carries an embedded cover: its record has a non-empty cover tag.
CarriesCover(p) ==
    /\ p \in DOMAIN metadata
    /\ \E k \in {"CoverArt", "Picture", "APIC"} : metadata[p][k] \notin {PyNone, PyStr(<<>>)}

\* The kind and the path of what choose_cover_source returned.
ChosenKind ==
    IF cover_source = PyNone THEN "none"
    ELSE IF SubSeq(cover_source.s, 1, 8) = <<115, 105, 100, 101, 99, 97, 114, 58>> THEN "sidecar"
    ELSE "embedded"

ChosenPath ==
    IF ChosenKind = "sidecar" THEN SubSeq(cover_source.s, 9, Len(cover_source.s))
    ELSE IF ChosenKind = "embedded" THEN SubSeq(cover_source.s, 10, Len(cover_source.s))
    ELSE <<>>

\* The audio files cover_art scans: in scope, with a suffix of --extensions.
ScannedAudio ==
    { p \in tree : InScope(p) /\ \E e \in args.extensions :
          Len(p) > Len(e) /\ Lower(SubSeq(p, Len(p) - Len(e) + 1, Len(p))) = e }

\* extract_cover has run (cover_art.main is past it).
Extracted == pc \in {"cover_saved", "cover_exit"}

\* The kind and the path of the source whose bytes cover_art wrote to --output.
ExtractedKind == IF cover = PyNone THEN "none" ELSE written[args.output.s].kind

ExtractedPath == IF cover = PyNone THEN <<>> ELSE written[args.output.s].path

\* The priority of choose_cover_source: a sidecar whenever one matches, an embedded
\* cover of the play order only without a sidecar, none only when neither exists.
ChoosePriority ==
    (pc = "cover_chosen") =>
        /\ SidecarMatches # {} => ChosenKind = "sidecar" /\ ChosenPath \in SidecarMatches
        /\ ChosenKind = "sidecar" => SidecarMatches # {}
        /\ ChosenKind = "embedded" =>
              /\ SidecarMatches = {}
              /\ ChosenPath \in Range(ordered) /\ CarriesCover(ChosenPath)
        /\ ChosenKind = "none" =>
              SidecarMatches = {} /\ \A p \in Range(ordered) : ~CarriesCover(p)

\* The same priority for extract_cover, up to the case of no cover.
ExtractPriority ==
    Extracted =>
        /\ SidecarMatches # {} => ExtractedKind = "sidecar" /\ ExtractedPath \in SidecarMatches
        /\ ExtractedKind = "sidecar" => SidecarMatches # {}
        /\ ExtractedKind = "embedded" =>
              /\ SidecarMatches = {}
              /\ ExtractedPath \in ScannedAudio /\ CarriesCover(ExtractedPath)

IsM4b(p) == Len(p) > 4 /\ Lower(SubSeq(p, Len(p) - 3, Len(p))) = <<46, 109, 52, 98>>

\* p is not after q in the sequence that lists the .m4b files first, then the other
\* audio files, each group in natural order of the relative path.
ContainerFirstLeq(p, q) ==
    \/ IsM4b(p) /\ ~IsM4b(q)
    \/ IsM4b(p) = IsM4b(q) /\ NaturalLeq(p, q)

\* The files of S that carry an embedded cover.
Carriers(S) == { p \in S : CarriesCover(p) }

\* The first file of that sequence among the carriers of S.
FirstCarrier(S) == CHOOSE p \in Carriers(S) : \A q \in Carriers(S) : ContainerFirstLeq(p, q)

\* C12 for choose_cover_source: without a sidecar, the embedded source is the first
\* carrier of the play order's files in container-first natural order.
C12_ChooseContainerFirst ==
    (pc = "cover_chosen" /\ SidecarMatches = {} /\ Carriers(Range(ordered)) # {}) =>
        ChosenKind = "embedded" /\ ChosenPath = FirstCarrier(Range(ordered))

\* C12 for extract_cover, with exiftool installed: without a sidecar, the embedded
\* source is the first carrier of the scanned audio files in container-first
\* natural order.
C12_ExtractContainerFirst ==
    (Extracted /\ tools.exiftool /\ SidecarMatches = {} /\ Carriers(ScannedAudio) # {}) =>
        ExtractedKind = "embedded" /\ ExtractedPath = FirstCarrier(ScannedAudio)

\* C12: when no sidecar exists, the embedded cover source is the first file with an
\* embedded cover in the sequence that lists all .m4b files before the other audio
\* files and follows natural order inside each group, in choose_cover_source and in
\* extract_cover, whatever the play order.
C12_EmbeddedContainerFirst == C12_ChooseContainerFirst /\ C12_ExtractContainerFirst

\* The match that is earliest in natural order of the relative path.
EarliestSidecar == CHOOSE p \in SidecarMatches : \A q \in SidecarMatches : NaturalLeq(p, q)

\* C13 for propose_m4b_order: the sidecar of choose_cover_source is the match that
\* is earliest in natural order.
C13_ProposeEarliest ==
    (pc = "cover_chosen" /\ SidecarMatches # {}) =>
        ChosenKind = "sidecar" /\ ChosenPath = EarliestSidecar

\* C13 for cover_art: the sidecar that extract_cover copies is the match that is
\* earliest in natural order.
C13_CoverArtEarliest ==
    (Extracted /\ SidecarMatches # {}) =>
        ExtractedKind = "sidecar" /\ ExtractedPath = EarliestSidecar

\* C13: when several files match the sidecar-name set, find_sidecar returns the one
\* that is earliest in natural order of its relative path (disc2/cover.jpg before
\* disc10/cover.jpg), in propose_m4b_order and in cover_art.
C13_NaturallyEarliestSidecar == C13_ProposeEarliest /\ C13_CoverArtEarliest

\* cover_art was given an --embed target that does not exist.
EmbedTargetMissing ==
    /\ pc \in {"cover_art", "cover_saved", "cover_exit"}
    /\ args.embed # PyNone
    /\ \A p \in tree : Abs(root, p) # args.embed.s

\* C20: in a run of cover_art whose --embed target does not exist, the cover output
\* file is never created or overwritten, and the run ends with a non-zero exit code.
C20_NoOutputWhenTargetMissing ==
    EmbedTargetMissing =>
        /\ args.output.s \notin DOMAIN written
        /\ pc = "cover_exit" => exit_code \notin {PyNone, PyInt(0)}

---------------------------------------------------------------------------
(* The two pipelines: build_m4b_inputs.main and propose_m4b_order.main.    *)

\* propose_m4b_order.collect_files(root, recursive, extensions): the files of the
\* scope with a suffix of the list, sorted by natural_key of the relative path.
collect_files(tr, recursive, extensions) ==
    LET found == Listing({p \in Candidates(tr, recursive) : Lower(suffix(p)) \in extensions})
    IN  SortedByKey(found, [i \in 1..Len(found) |-> natural_key(found[i])])

\* build_m4b_inputs.natural_key(text): the text of propose_m4b_order.natural_key.
build_natural_key(text) ==
    LET parts == ReSplitDigits(text, FALSE)
    IN  PyList([i \in 1..Len(parts) |->
                  IF IsDigitStr(parts[i]) THEN PyInt(IntOf(parts[i]))
                  ELSE PyStr(Lower(parts[i]))])

\* build_m4b_inputs.collect_files(root, recursive, extensions)
build_collect_files(tr, recursive, extensions) ==
    LET found == Listing({p \in Candidates(tr, recursive) : Lower(suffix(p)) \in extensions})
    IN  SortedByKey(found, [i \in 1..Len(found) |-> build_natural_key(found[i])])

\* build_m4b_inputs.py: DEFAULT_EXTENSIONS
\* ".m4b", ".m4a", ".mp3", ".aac", ".flac", ".ogg", ".wav"
BUILD_DEFAULT_EXTENSIONS ==
    { <<46, 109, 52, 98>>,
      <<46, 109, 52, 97>>,
      <<46, 109, 112, 51>>,
      <<46, 97, 97, 99>>,
      <<46, 102, 108, 97, 99>>,
      <<46, 111, 103, 103>>,
      <<46, 119, 97, 118>> }

\* Path.resolve() of a file of the tree: the target of a symbolic link, else the
\* path under the (resolved) root.
Resolve(rt, lk, rel) == IF rel \in DOMAIN lk THEN lk[rel] ELSE Abs(rt, rel)

\* "'" in text
HasQuote(text) == \E i \in 1..Len(text) : text[i] = 39

\* The line f"file '{path.resolve()}'\n" of a concat list.
ConcatLine(rt, lk, rel) == <<102, 105, 108, 101, 32, 39>> \o Resolve(rt, lk, rel) \o <<39, 10>>

\* propose_m4b_order.write_concat_list(ordered, output_path): ValueError, before the
\* output file is opened, when str(path) of a file has a quote; else the lines
\* written to the file opened with "w".
write_concat_list(fs, rt, lk) ==
    IF \E i \in 1..Len(fs) : HasQuote(Abs(rt, fs[i]))
    THEN [raised |-> TRUE, lines |-> <<>>]
    ELSE [raised |-> FALSE, lines |-> [i \in 1..Len(fs) |-> ConcatLine(rt, lk, fs[i])]]

\* build_m4b_inputs.write_concat_list(files, output_path): the same text.
build_write_concat_list(fs, rt, lk) ==
    IF \E i \in 1..Len(fs) : HasQuote(Abs(rt, fs[i]))
    THEN [raised |-> TRUE, lines |-> <<>>]
    ELSE [raised |-> FALSE, lines |-> [i \in 1..Len(fs) |-> ConcatLine(rt, lk, fs[i])]]

\* write_ffmetadata(chapters, output_path): the header line, then the chapters.
write_ffmetadata(chs) == [header |-> ";FFMETADATA1", chapters |-> chs]

\* One run of an external probe: the tool and the file (<<>> for exiftool's one
\* call on all files).
Probe(tool, path) == [tool |-> tool, path |-> path]

\* A tag value as exiftool -j prints it: a number for a text of digits.
ExifValue(text) ==
    IF text = <<>> THEN PyNone
    ELSE IF IsDigitStr(text) THEN PyInt(IntOf(text))
    ELSE PyStr(text)

\* A tag value as ffprobe -of json prints it: always text.
FfprobeValue(text) == IF text = <<>> THEN PyNone ELSE PyStr(text)

\* load_exiftool(paths): CalledProcessError / JSONDecodeError when the call fails,
\* else the items of its output keyed by SourceFile; tl.records are the files the
\* output has an item for, tl.track their track tags.
load_exiftool(paths, tl) ==
    IF tl.exiftool = "raises" THEN [raised |-> TRUE, mapping |-> <<>>]
    ELSE [raised  |-> FALSE,
          mapping |-> [p \in Range(paths) \cap tl.records |->
                         [EmptyInfo EXCEPT !.TrackNumber = ExifValue(tl.track[p])]]]

\* load_ffprobe(path): the record built from ffprobe's format tags (none of the
\* cover tags).  Called only for a file ffprobe does not fail on.
load_ffprobe(path, tl) == [EmptyInfo EXCEPT !.TrackNumber = FfprobeValue(tl.track[path])]

\* The ffprobe loop of load_metadata from index i on: a record for each file
\* ffprobe reads, a line on stderr for each it fails on, one probe per file.
RECURSIVE FfprobeLoop(_, _, _, _)
FfprobeLoop(paths, tl, i, acc) ==
    IF i > Len(paths) THEN acc
    ELSE LET path == paths[i]
             next == IF path \in tl.ffprobe_fails
                     THEN [acc EXCEPT !.stderr = Append(@, MsgFor("ffprobe failed for", path)),
                                      !.probed = Append(@, Probe("ffprobe", path))]
                     ELSE [acc EXCEPT !.mapping = (path :> load_ffprobe(path, tl)) @@ @,
                                      !.probed = Append(@, Probe("ffprobe", path))]
         IN  FfprobeLoop(paths, tl, i + 1, next)

\* load_metadata(paths): exiftool's mapping when exiftool is installed and its call
\* succeeds; RuntimeError when ffprobe is then needed and not installed; else the
\* mapping of the ffprobe loop.  With what it printed to stderr and the probes run.
load_metadata(paths, tl) ==
    LET exif   == load_exiftool(paths, tl)
        tried  == IF tl.exiftool = "missing" THEN <<>> ELSE <<Probe("exiftool", <<>>)>>
        fell   == IF tl.exiftool = "raises"
                  THEN <<Msg("exiftool failed, falling back to ffprobe.")>> ELSE <<>>
    IN  IF tl.exiftool = "answers"
        THEN [raised |-> FALSE, mapping |-> exif.mapping, stderr |-> <<>>, probed |-> tried]
        ELSE IF ~tl.ffprobe
        THEN [raised |-> TRUE, mapping |-> <<>>, stderr |-> fell, probed |-> tried]
        ELSE FfprobeLoop(paths, tl, 1,
                 [raised |-> FALSE, mapping |-> <<>>, stderr |-> fell, probed |-> tried])

\* format_summary(...): the lines of its Warnings section, the heading and then
\* "- <warning>" for each warning in order; no line when there is no warning.
format_summary(warns) ==
    IF warns = <<>> THEN <<>>
    ELSE <<[prefix |-> "", text |-> "Warnings:"]>>
         \o [i \in 1..Len(warns) |-> [prefix |-> "- ", text |-> warns[i]]]

\* durations_ms = [probe_duration_ms(path) for path in files] of build_chapters: the
\* probes run, up to and with the first that fails (index 0 when none does).
FirstFailure(fs, tl) ==
    LET bad == {i \in 1..Len(fs) : fs[i] \in tl.ffprobe_fails}
    IN  IF bad = {} THEN 0 ELSE CHOOSE i \in bad : \A j \in bad : i <= j

DurationProbes(fs, tl) ==
    LET k == IF FirstFailure(fs, tl) = 0 THEN Len(fs) ELSE FirstFailure(fs, tl)
    IN  [i \in 1..k |-> Probe("ffprobe", fs[i])]
---------------------------------------------------------------------------
(* Runs of the two pipelines over small directory trees.                   *)

\* "a2.m4b", "a10.m4b", "o'k.m4b", "ln.m4b"
MainPaths ==
    { <<97, 50, 46, 109, 52, 98>>,
      <<97, 49, 48, 46, 109, 52, 98>>,
      <<111, 39, 107, 46, 109, 52, 98>>,
      <<108, 110, 46, 109, 52, 98>> }

\* "n.txt", a file that no extension list matches
MainOthers == { <<110, 46, 116, 120, 116>> }

\* "ln.m4b" is a symbolic link to "/mnt/o'k.m4b", a file outside the root.
LinkPath == <<108, 110, 46, 109, 52, 98>>

LinkTarget == <<47, 109, 110, 116, 47, 111, 39, 107, 46, 109, 52, 98>>

\* The track tag of a file: none or "1".
TrackTexts == { <<>>, <<49>> }

\* "files.txt" and "meta.txt", the --files-out and --meta-out of the runs
FilesOut == <<102, 105, 108, 101, 115, 46, 116, 120, 116>>

MetaOut == <<109, 101, 116, 97, 46, 116, 120, 116>>

\* Either script starts on a tree of at most MaxFiles audio files, with or without
\* n.txt.  Each audio file has a track
\* tag or none and lasts 30 s; ffprobe, when installed, fails on some of the files;
\* exiftool is not installed, or its call fails, or it answers with an item for
\* some of the files.
InitMain ==
    /\ root = <<47, 98, 107>>
    /\ \E audio \in { S \in SUBSET MainPaths : Cardinality(S) <= MaxFiles } :
       \E others \in SUBSET MainOthers :
           tree = audio \cup others
    /\ links = [p \in tree \cap {LinkPath} |-> LinkTarget]
    /\ durations = [p \in tree \cap MainPaths |-> 30000000]
    /\ \E track \in [tree \cap MainPaths -> TrackTexts],
          fails \in SUBSET (tree \cap MainPaths), ffprobe \in BOOLEAN :
          \/ /\ pc = "build_scan"
             /\ args = [recursive |-> TRUE, extensions |-> BUILD_DEFAULT_EXTENSIONS,
                        image_names |-> {}, files_out |-> PyPath(FilesOut),
                        meta_out |-> PyPath(MetaOut)]
             /\ chapter_mode \in {"dir", "file", "none"}
             /\ tools = [exiftool |-> "missing", records |-> {}, ffprobe |-> ffprobe,
                         ffprobe_fails |-> fails, track |-> track]
          \/ /\ pc = "propose_scan"
             /\ args \in [recursive : {TRUE}, extensions : {DEFAULT_EXTENSIONS},
                          image_names : {DEFAULT_IMAGE_NAMES},
                          files_out : {PyNone, PyPath(FilesOut)}, meta_out : {PyNone}]
             /\ chapter_mode = "none"
             /\ \/ \E e \in {"missing", "raises"} :
                      tools = [exiftool |-> e, records |-> {}, ffprobe |-> ffprobe,
                               ffprobe_fails |-> fails, track |-> track]
                \/ \E records \in SUBSET (tree \cap MainPaths) :
                      tools = [exiftool |-> "answers", records |-> records,
                               ffprobe |-> ffprobe, ffprobe_fails |-> fails,
                               track |-> track]
    /\ files = <<>>
    /\ metadata = <<>>
    /\ ordered = <<>>
    /\ first_ordered = <<>>
    /\ warnings = <<>>
    /\ metadata_source = PyNone
    /\ chapters = <<>>
    /\ cover_source = PyNone
    /\ cover = PyNone
    /\ written = <<>>
    /\ exit_code = PyNone
    /\ stderr = <<>>
    /\ summary = <<>>
    /\ sort_keys = <<>>
    /\ probed = <<>>

\* build_m4b_inputs.main, lines 170-173: the scan and the return of 2 on no file.
BuildScan ==
    /\ pc = "build_scan"
    /\ files' = build_collect_files(tree, args.recursive, args.extensions)
    /\ IF files' = <<>>
       THEN /\ stderr' = Append(stderr, Msg("No matching audio files found."))
            /\ exit_code' = PyInt(2)
            /\ pc' = "build_exit"
       ELSE /\ pc' = "build_concat"
            /\ UNCHANGED <<stderr, exit_code>>
    /\ UNCHANGED <<sort_keys, metadata, root, durations, chapter_mode, ordered,
                   first_ordered, warnings, metadata_source, chapters, env, cover_source,
                   cover, written, summary, probed>>

\* build_m4b_inputs.main, lines 175-182: write_concat_list on the scanned files, the
\* return of 3 on ValueError, the return of 0 in chapter mode "none".
BuildWriteConcat ==
    /\ pc = "build_concat"
    /\ \E r \in {build_write_concat_list(files, root, links)} :
          IF r.raised
          THEN /\ stderr' = Append(stderr, Msg("file path contains a single quote"))
               /\ exit_code' = PyInt(3)
               /\ pc' = "build_exit"
               /\ UNCHANGED written
          ELSE /\ written' = (args.files_out.s :> r.lines) @@ written
               /\ exit_code' = IF chapter_mode = "none" THEN PyInt(0) ELSE exit_code
               /\ pc' = IF chapter_mode = "none" THEN "build_exit" ELSE "build_chapters"
               /\ UNCHANGED stderr
    /\ UNCHANGED <<sort_keys, files, metadata, root, durations, chapter_mode, ordered,
                   first_ordered, warnings, metadata_source, chapters, env, cover_source,
                   cover, summary, probed>>

\* A main that writes the chapter metadata file before build_chapters has probed
\* the files: a failed probe leaves a file without chapters behind.
BuildChaptersAndWrite_WriteFirst ==
    /\ pc = "build_chapters"
    /\ pc' = "build_exit"
    /\ IF ~tools.ffprobe
       THEN /\ stderr' = Append(stderr, Msg("Traceback: FileNotFoundError"))
            /\ exit_code' = PyInt(1)
            /\ UNCHANGED <<probed, chapters, written>>
       ELSE IF FirstFailure(files, tools) # 0
       THEN /\ probed' = probed \o DurationProbes(files, tools)
            /\ stderr' = Append(stderr, Msg("ffprobe failed; ensure ffmpeg/ffprobe are installed."))
            /\ exit_code' = PyInt(4)
            /\ written' = (args.meta_out.s :> write_ffmetadata(<<>>)) @@ written
            /\ UNCHANGED chapters
       ELSE /\ probed' = probed \o DurationProbes(files, tools)
            /\ chapters' = build_chapters(files, root, chapter_mode, durations)
            /\ written' = (args.meta_out.s :> write_ffmetadata(chapters')) @@ written
            /\ exit_code' = PyInt(0)
            /\ UNCHANGED stderr
    /\ UNCHANGED <<sort_keys, files, metadata, root, durations, chapter_mode, ordered,
                   first_ordered, warnings, metadata_source, env, cover_source, cover,
                   summary>>

\* build_m4b_inputs.main, lines 184-192: build_chapters, which probes the duration
\* of every file before it builds anything, the return of 4 on CalledProcessError,
\* else write_ffmetadata and the return of 0.  Without ffprobe the first
\* subprocess.run raises FileNotFoundError, which nothing catches: exit code 1.
BuildChaptersAndWrite ==
    /\ pc = "build_chapters"
    /\ pc' = "build_exit"
    /\ IF ~tools.ffprobe
       THEN /\ stderr' = Append(stderr, Msg("Traceback: FileNotFoundError"))
            /\ exit_code' = PyInt(1)
            /\ UNCHANGED <<probed, chapters, written>>
       ELSE IF FirstFailure(files, tools) # 0
       THEN /\ probed' = probed \o DurationProbes(files, tools)
            /\ stderr' = Append(stderr, Msg("ffprobe failed; ensure ffmpeg/ffprobe are installed."))
            /\ exit_code' = PyInt(4)
            /\ UNCHANGED <<chapters, written>>
       ELSE /\ probed' = probed \o DurationProbes(files, tools)
            /\ chapters' = build_chapters(files, root, chapter_mode, durations)
            /\ written' = (args.meta_out.s :> write_ffmetadata(chapters')) @@ written
            /\ exit_code' = PyInt(0)
            /\ UNCHANGED stderr
    /\ UNCHANGED <<sort_keys, files, metadata, root, durations, chapter_mode, ordered,
                   first_ordered, warnings, metadata_source, env, cover_source, cover,
                   summary>>

\* A scan that goes on to the probes whatever it found.
ProposeScan_NoCheck ==
    /\ pc = "propose_scan"
    /\ files' = collect_files(tree, args.recursive, args.extensions)
    /\ pc' = "propose_probe"
    /\ UNCHANGED <<sort_keys, metadata, root, durations, chapter_mode, ordered,
                   first_ordered, warnings, metadata_source, chapters, env, cover_source,
                   cover, written, summary, probed, stderr, exit_code>>

\* propose_m4b_order.main, lines 351-354: the scan and the return of 2 on no file.
ProposeScan ==
    /\ pc = "propose_scan"
    /\ files' = collect_files(tree, args.recursive, args.extensions)
    /\ IF files' = <<>>
       THEN /\ stderr' = Append(stderr, Msg("No matching M4B files found."))
            /\ exit_code' = PyInt(2)
            /\ pc' = "propose_exit"
       ELSE /\ pc' = "propose_probe"
            /\ UNCHANGED <<stderr, exit_code>>
    /\ UNCHANGED <<sort_keys, metadata, root, durations, chapter_mode, ordered,
                   first_ordered, warnings, metadata_source, chapters, env, cover_source,
                   cover, written, summary, probed>>

\* propose_m4b_order.main, lines 356-360: load_metadata and the return of 3 on
\* RuntimeError.
ProposeLoadMetadata ==
    /\ pc = "propose_probe"
    /\ \E r \in {load_metadata(files, tools)} :
          /\ probed' = probed \o r.probed
          /\ IF r.raised
             THEN /\ stderr' = (stderr \o r.stderr)
                               \o <<Msg("ffprobe is required when exiftool is unavailable.")>>
                  /\ exit_code' = PyInt(3)
                  /\ pc' = "propose_exit"
                  /\ UNCHANGED metadata
             ELSE /\ stderr' = stderr \o r.stderr
                  /\ metadata' = r.mapping
                  /\ pc' = "propose_order"
                  /\ UNCHANGED exit_code
    /\ UNCHANGED <<sort_keys, files, root, durations, chapter_mode, ordered, first_ordered,
                   warnings, metadata_source, chapters, env, cover_source, cover, written,
                   summary>>

\* propose_m4b_order.main, lines 362-365: compute_order, the two selectors, and the
\* summary printed with the warnings of compute_order.
ProposeOrderAndSummary ==
    /\ pc = "propose_order"
    /\ \E r \in {compute_order(files, metadata)} :
          /\ ordered' = r.ordered
          /\ first_ordered' = r.ordered
          /\ warnings' = r.warnings
          /\ summary' = format_summary(r.warnings)
    /\ metadata_source' = choose_metadata_source(ordered', metadata)
    /\ cover_source' = choose_cover_source(tree, args.recursive, ordered', metadata,
                                           args.image_names)
    /\ pc' = "propose_write"
    /\ UNCHANGED <<sort_keys, files, metadata, root, durations, chapter_mode, chapters, env,
                   cover, written, exit_code, stderr, probed>>

\* propose_m4b_order.main, lines 367-374: write_concat_list on the play order when
\* --files-out is given, the return of 4 on ValueError, else the return of 0.
ProposeWriteConcat ==
    /\ pc = "propose_write"
    /\ pc' = "propose_exit"
    /\ IF args.files_out = PyNone
       THEN /\ exit_code' = PyInt(0)
            /\ UNCHANGED <<stderr, written>>
       ELSE \E r \in {write_concat_list(ordered, root, links)} :
               IF r.raised
               THEN /\ stderr' = Append(stderr, Msg("file path contains a single quote"))
                    /\ exit_code' = PyInt(4)
                    /\ UNCHANGED written
               ELSE /\ written' = (args.files_out.s :> r.lines) @@ written
                    /\ exit_code' = PyInt(0)
                    /\ UNCHANGED stderr
    /\ UNCHANGED <<sort_keys, files, metadata, root, durations, chapter_mode, ordered,
                   first_ordered, warnings, metadata_source, chapters, env, cover_source,
                   cover, summary, probed>>

NextMain ==
    \/ BuildScan \/ BuildWriteConcat \/ BuildChaptersAndWrite
    \/ ProposeScan \/ ProposeLoadMetadata \/ ProposeOrderAndSummary \/ ProposeWriteConcat

SpecMain == InitMain /\ [][NextMain]_vars

\* The exit positions of the two pipelines, and the positions of each.
AtExit == pc \in {"build_exit", "propose_exit"}

InBuild == pc \in {"build_scan", "build_concat", "build_chapters", "build_exit"}

InPropose ==
    pc \in {"propose_scan", "propose_probe", "propose_order", "propose_write", "propose_exit"}

\* The concat list was written in this run.
ConcatWritten == args.files_out # PyNone /\ args.files_out.s \in DOMAIN written

\* The lines of a concat list for the sequence s.
LinesOf(s) == [i \in 1..Len(s) |-> ConcatLine(root, links, s[i])]

\* The metadata of the scanned files as their tags give it.
CatalogMetadata ==
    [p \in Range(files) |-> [EmptyInfo EXCEPT !.TrackNumber = ExifValue(tools.track[p])]]

\* C14: the sequence build_m4b_inputs writes to the concat list and builds its
\* chapters from is the play order compute_order gives for the scanned files and
\* their tags, and the sequence propose_m4b_order writes is its play order.
C14_PlayOrderIsFed ==
    /\ (InBuild /\ ConcatWritten) =>
           written[args.files_out.s] = LinesOf(compute_order(files, CatalogMetadata).ordered)
    /\ (InPropose /\ ConcatWritten) =>
           written[args.files_out.s] = LinesOf(compute_order(files, metadata).ordered)

\* The scan finds no matching file: no file of the tree has a suffix of the
\* extension list.
NoMatchingFiles ==
    \A p \in tree : \A e \in args.extensions :
        ~(Len(p) > Len(e) /\ Lower(SubSeq(p, Len(p) - Len(e) + 1, Len(p))) = e)

\* The message of the run about no matching file.
NoMatchingReported ==
    \E i \in 1..Len(stderr) :
        stderr[i].msg \in {"No matching audio files found.", "No matching M4B files found."}

\* C15: when the scan finds no matching file, both pipelines report it and end with
\* a non-zero exit code, and at no point of the run is a file written or a probe
\* run.
C15_EmptyInputNoWriteNoProbe ==
    ((InBuild \/ InPropose) /\ NoMatchingFiles) =>
        /\ written = <<>>
        /\ probed = <<>>
        /\ AtExit => (exit_code \notin {PyNone, PyInt(0)} /\ NoMatchingReported)
        /\ ~AtExit => pc \in {"build_scan", "propose_scan"}

\* C15 witness: propose_m4b_order has ended on a tree that holds n.txt only, with
\* exiftool installed and --files-out given.
C15_Witness ==
    /\ pc = "propose_exit"
    /\ tree = MainOthers
    /\ tools.exiftool = "answers"
    /\ args.files_out # PyNone
    /\ exit_code = PyInt(2)

\* A file of the list handed to write_concat_list has a quote in its path: a file
\* of the tree that the scan matches, in a run that writes a concat list.
QuoteInList ==
    /\ InBuild \/ (InPropose /\ args.files_out # PyNone)
    /\ \E p \in tree :
          /\ \E e \in args.extensions :
                Len(p) > Len(e) /\ Lower(SubSeq(p, Len(p) - Len(e) + 1, Len(p))) = e
          /\ \E i \in 1..Len(p) : p[i] = 39

\* C16, first half: with a quote in a path of the list no output file is created or
\* modified at any point of the run, and the run ends with a non-zero exit code.
C16_QuoteRejectedBeforeWrite ==
    QuoteInList =>
        /\ written = <<>>
        /\ AtExit => exit_code \notin {PyNone, PyInt(0)}

\* C16, second half: no line written to a concat list has a quote inside the path,
\* the text between "file '" and the closing quote.
C16_NoQuoteInWrittenPath ==
    ((InBuild \/ InPropose) /\ ConcatWritten) =>
        \A i \in 1..Len(written[args.files_out.s]) :
            LET line == written[args.files_out.s][i]
            IN  \A k \in 7..(Len(line) - 2) : line[k] # 39

\* C16: a quote in a path of the list makes write_concat_list fail before the
\* output file is opened and the run end non-zero with no output file created or
\* modified; and no line written to a concat list has a quote inside the path.
C16_QuoteNeverWritten == C16_QuoteRejectedBeforeWrite /\ C16_NoQuoteInWrittenPath

\* The files on which a per-file probe of this run failed.
FailedProbes ==
    { probed[i].path : i \in { k \in 1..Len(probed) :
          probed[k].tool = "ffprobe" /\ probed[k].path \in tools.ffprobe_fails } }

\* C17 for propose_m4b_order.load_metadata: a run in which ffprobe failed on some
\* file, and that has no quote to reject, ends with exit code 0; each such file has
\* no record and the concat list, when asked for, lists every scanned file.
C17_ProposeProbeFailureRecovered ==
    (pc = "propose_exit" /\ FailedProbes # {} /\ ~QuoteInList) =>
        /\ exit_code = PyInt(0)
        /\ \A p \in FailedProbes : p \notin DOMAIN metadata
        /\ args.files_out # PyNone =>
              ConcatWritten /\ Len(written[args.files_out.s]) = Len(files)

\* C17 for build_m4b_inputs.build_chapters: a run in which the duration probe of some
\* file failed ends with exit code 0 and a chapter metadata file.
C17_BuildProbeFailureRecovered ==
    (pc = "build_exit" /\ FailedProbes # {}) =>
        /\ exit_code = PyInt(0)
        /\ args.meta_out.s \in DOMAIN written

\* C17: a probe failure for a single file is never fatal: the file is treated as
\* having an empty record and the pipeline goes on to a successful result, in
\* propose_m4b_order.load_metadata and in build_m4b_inputs.build_chapters.
C17_ProbeFailureNeverFatal ==
    C17_ProposeProbeFailureRecovered /\ C17_BuildProbeFailureRecovered

\* propose_m4b_order has printed its summary.
SummaryPrinted ==
    pc = "propose_write" \/ (pc = "propose_exit" /\ exit_code \in {PyInt(0), PyInt(4)})

\* C18: every per-file probe failure adds one warning to the collected warnings
\* (which otherwise hold those of compute_order), and every collected warning is a
\* line of the Warnings section of the summary.
C18_ProbeFailuresWarned ==
    SummaryPrinted =>
        /\ Len(warnings) = Cardinality(FailedProbes) + Len(compute_order(files, metadata).warnings)
        /\ \A i \in 1..Len(warnings) :
              \E k \in 1..Len(summary) : summary[k].prefix = "- " /\ summary[k].text = warnings[i]

\* C18, second half alone: every collected warning is a line of the Warnings section.
C18_WarningsPrinted ==
    SummaryPrinted =>
        \A i \in 1..Len(warnings) :
            \E k \in 1..Len(summary) : summary[k].prefix = "- " /\ summary[k].text = warnings[i]

\* load_metadata has returned a mapping.
MetadataLoaded == pc \in {"propose_order", "propose_write"} \/ SummaryPrinted

\* exiftool gave no record for the file: its call failed, or its output has no item
\* for the file.
NoExifRecord(p) == tools.exiftool = "raises" \/ p \notin tools.records

\* C19: with exiftool and ffprobe both installed, exiftool is run; ffprobe is run on
\* each file exiftool gave no record for; and a file has no record only if exiftool
\* gave none and ffprobe failed on it.
C19_PerFileFallback ==
    (MetadataLoaded /\ tools.exiftool # "missing" /\ tools.ffprobe) =>
        /\ probed # <<>> /\ probed[1] = [tool |-> "exiftool", path |-> <<>>]
        /\ \A p \in Range(files) :
              NoExifRecord(p) => \E i \in 1..Len(probed) : probed[i] = [tool |-> "ffprobe", path |-> p]
        /\ \A p \in Range(files) :
              p \notin DOMAIN metadata => (NoExifRecord(p) /\ p \in tools.ffprobe_fails)

---------------------------------------------------------------------------
(* The natural comparator: natural_key of the three scripts, applied to    *)
(* the same texts.                                                         *)

\* The number of texts keyed in one run.
CompareArity == 3

\* "a2", "a10", "A2", "a", "A", "12", "x\d7"
CompareTexts ==
    { <<97, 50>>, <<97, 49, 48>>, <<65, 50>>, <<97>>, <<65>>, <<49, 50>>, <<120, 92, 100, 55>> }

\* The scripts that define natural_key.
NaturalKeyScripts == { "propose_m4b_order", "build_m4b_inputs", "cover_art" }

InitCompare ==
    /\ files \in [1..CompareArity -> CompareTexts]
    /\ args \in [script : NaturalKeyScripts]
    /\ metadata = <<>>
    /\ root = <<47, 98, 107>>
    /\ durations = <<>>
    /\ chapter_mode = "none"
    /\ ordered = <<>>
    /\ first_ordered = <<>>
    /\ warnings = <<>>
    /\ metadata_source = PyNone
    /\ chapters = <<>>
    /\ pc = "texts"
    /\ tree = {}
    /\ links = <<>>
    /\ tools = <<>>
    /\ cover_source = PyNone
    /\ cover = PyNone
    /\ written = <<>>
    /\ exit_code = PyNone
    /\ stderr = <<>>
    /\ summary = <<>>
    /\ sort_keys = <<>>
    /\ probed = <<>>

\* natural_key(text) of the script args.script, for each of the texts: the keys a
\* sort of the texts compares.
NaturalKeys ==
    /\ pc = "texts"
    /\ sort_keys' = [i \in 1..Len(files) |->
                       CASE args.script = "propose_m4b_order" -> natural_key(files[i])
                         [] args.script = "build_m4b_inputs"  -> build_natural_key(files[i])
                         [] OTHER                             -> cover_art_natural_key(files[i])]
    /\ pc' = "keyed"
    /\ UNCHANGED <<files, metadata, root, durations, chapter_mode, ordered, first_ordered,
                   warnings, metadata_source, chapters, env, out>>

NextCompare == NaturalKeys

SpecCompare == InitCompare /\ [][NextCompare]_vars

\* The keys of the texts have been computed.
Keyed == pc = "keyed"

\* cmp of the i-th and the j-th text: the order of their keys.
KeyCmp(i, j) == PyCmp(sort_keys[i], sort_keys[j])

KeyLeq(i, j) == KeyCmp(i, j) \in {"lt", "eq"}

\* The text before the first digit of text, and the text from that digit on.
NonDigitPrefix(text) == SubSeq(text, 1, RunLen(text, FALSE))

DigitSuffix(text) == SubSeq(text, RunLen(text, FALSE) + 1, Len(text))

\* Any two texts are comparable.
C21_Comparable ==
    Keyed => \A i, j \in 1..Len(files) : KeyCmp(i, j) # "TypeError"

C21_Reflexive ==
    Keyed => \A i \in 1..Len(files) : KeyCmp(i, i) = "eq"

\* cmp(a, b) and cmp(b, a) are opposite.
C21_Antisymmetric ==
    Keyed => \A i, j \in 1..Len(files) :
                 /\ (KeyCmp(i, j) = "lt") <=> (KeyCmp(j, i) = "gt")
                 /\ (KeyCmp(i, j) = "eq") <=> (KeyCmp(j, i) = "eq")

C21_Transitive ==
    Keyed => \A i, j, k \in 1..Len(files) :
                 (KeyLeq(i, j) /\ KeyLeq(j, k)) => KeyLeq(i, k)

\* Two texts that are the same non-digit text (up to case) followed by a digit run
\* compare as the integers of their digit runs: cmp("a2", "a10") < 0.
C21_DigitRunsAsIntegers ==
    Keyed => \A i, j \in 1..Len(files) :
                 ( /\ Lower(NonDigitPrefix(files[i])) = Lower(NonDigitPrefix(files[j]))
                   /\ IsDigitStr(DigitSuffix(files[i]))
                   /\ IsDigitStr(DigitSuffix(files[j])) )
                 => KeyCmp(i, j) = ( IF IntOf(DigitSuffix(files[i])) < IntOf(DigitSuffix(files[j]))
                                     THEN "lt"
                                     ELSE IF IntOf(DigitSuffix(files[i])) > IntOf(DigitSuffix(files[j]))
                                     THEN "gt" ELSE "eq" )

\* Texts that differ by case only compare equal: cmp("a", "A") == 0.
C21_CaseInsensitive ==
    Keyed => \A i, j \in 1..Len(files) :
                 (Lower(files[i]) = Lower(files[j])) => KeyCmp(i, j) = "eq"

\* C21: in every natural_key implementation of the repository the order induced on
\* texts compares digit runs as integers and the other runs case-insensitively
\* (cmp("a2", "a10") < 0, cmp("a", "A") == 0), and it is a total order: any two
\* texts are comparable, and the order is reflexive, antisymmetric and transitive.
C21_NaturalTotalOrder ==
    /\ C21_Comparable
    /\ C21_Reflexive
    /\ C21_Antisymmetric
    /\ C21_Transitive
    /\ C21_DigitRunsAsIntegers
    /\ C21_CaseInsensitive

\* The same for the two scripts whose pattern splits digit runs off.
C21_DigitSplittingScripts ==
    (args.script # "cover_art") => C21_NaturalTotalOrder

---------------------------------------------------------------------------
(* The ordering engine on the index fields: every shape of TrackNumber and *)
(* DiskNumber that parse_index tells apart.                                *)

\* "a.m4b", "b.m4b", "c.m4b"
IndexPaths == { <<97, 46, 109, 52, 98>>, <<98, 46, 109, 52, 98>>, <<99, 46, 109, 52, 98>> }

\* No field; track 0; track "3/12" on disc 0; track "n/a"; track "#2" on disc "CD2";
\* track 1 on disc "0/2"; track 1 on disc "x"; track 2 on disc 2.
IndexRecords ==
    { TrackDisc(PyNone, PyNone),
      TrackDisc(PyInt(0), PyNone),
      TrackDisc(PyStr(<<51, 47, 49, 50>>), PyInt(0)),
      TrackDisc(PyStr(<<110, 47, 97>>), PyNone),
      TrackDisc(PyStr(<<35, 50>>), PyStr(<<67, 68, 50>>)),
      TrackDisc(PyInt(1), PyStr(<<48, 47, 50>>)),
      TrackDisc(PyInt(1), PyStr(<<120>>)),
      TrackDisc(PyInt(2), PyInt(2)) }

\* The catalog main hands to compute_order is never empty (main returns 2 first).
InitIndex ==
    /\ files \in DistinctSeqs(IndexPaths, MaxFiles) \ {<<>>}
    /\ \E present \in SUBSET Range(files) : metadata \in [present -> IndexRecords]
    /\ root = <<47, 98, 107>>
    /\ durations = <<>>
    /\ chapter_mode = "none"
    /\ ordered = <<>>
    /\ first_ordered = <<>>
    /\ warnings = <<>>
    /\ metadata_source = PyNone
    /\ chapters = <<>>
    /\ pc = "input"
    /\ NoRun

SpecIndex == InitIndex /\ [][Next]_vars

\* The track and the disc of the i-th entry of the latest compute_order call.
TrackOfEntry(i) == sort_keys[i].l[2]

DiscOfEntry(i) == sort_keys[i].l[1].n

\* The path of the i-th entry: the first call reads files, the second its own output.
PathOfEntry(i) == IF pc = "ordered" THEN files[i] ELSE first_ordered[i]

SomeEntryHasTrack == \E i \in 1..Len(sort_keys) : TrackOfEntry(i) # PyNone

SomeEntryLacksTrack == \E i \in 1..Len(sort_keys) : TrackOfEntry(i) = PyNone

Warned(text) == \E k \in 1..Len(warnings) : warnings[k] = text

\* C22: the warnings of compute_order are determined by the track numbers alone:
\* the "no track numbers detected" warning is emitted exactly when no entry has a
\* parsable track number, the "some files are missing track numbers" warning exactly
\* when at least one entry has a track number and at least one lacks it, and there
\* is no warning when every entry has one.
C22_WarningsFromTracks ==
    Ordered =>
        /\ Warned(WarnNoTracks) <=> ~SomeEntryHasTrack
        /\ Warned(WarnMissing) <=> (SomeEntryHasTrack /\ SomeEntryLacksTrack)
        /\ ~SomeEntryLacksTrack => warnings = <<>>
        /\ Len(warnings) <= 1

\* compute_order has run on a catalog with an unparsable track text next to a
\* parsed one, and has warned of the missing track number only.
C22_Witness ==
    /\ pc = "ordered"
    /\ \E i, j \in 1..Len(files) :
           /\ MetadataGet(metadata, files[i]).TrackNumber = PyStr(<<110, 47, 97>>)
           /\ TrackOfEntry(i) = PyNone
           /\ TrackOfEntry(j) # PyNone
    /\ warnings = <<WarnMissing>>

\* The DiskNumber field of the i-th entry, parsed.
ParsedDisc(i) == parse_index(MetadataGet(metadata, PathOfEntry(i)).DiskNumber)

\* C23: the disc number used as the first sort key equals the parsed disc number
\* whenever the DiskNumber field is present and parsable, for every parsed value
\* including 0, and is the default 1 when the field is absent or unparsable.
C23_DiscIsParsedDisc ==
    Ordered =>
        \A i \in 1..Len(sort_keys) :
            /\ ParsedDisc(i) # PyNone => DiscOfEntry(i) = ParsedDisc(i).n
            /\ ParsedDisc(i) = PyNone => DiscOfEntry(i) = 1

\* The same for the discs that are not 0.
C23_NonZeroDiscIsParsedDisc ==
    Ordered =>
        \A i \in 1..Len(sort_keys) :
            /\ (ParsedDisc(i) # PyNone /\ ParsedDisc(i).n # 0) => DiscOfEntry(i) = ParsedDisc(i).n
            /\ ParsedDisc(i) = PyNone => DiscOfEntry(i) = 1

\* The TrackNumber field of the i-th entry.
TrackField(i) == MetadataGet(metadata, PathOfEntry(i)).TrackNumber

\* The positions of the digits of text.
DigitPositions(text) == { p \in 1..Len(text) : IsDigit(text[p]) }

\* The digit run of text that begins at position p.
DigitRunAt(text, p) ==
    LET m == CHOOSE k \in p..Len(text) :
                 /\ \A q \in p..k : IsDigit(text[q])
                 /\ (k = Len(text) \/ ~IsDigit(text[k + 1]))
    IN  SubSeq(text, p, m)

\* The statement with the leading run only: parse_index on a text returns the
\* integer of the digit run the text begins with, and absent when the text does not
\* begin with a digit.
C24_LeadingDigitRun ==
    Ordered =>
        \A i \in 1..Len(sort_keys) :
            TrackField(i).t = "str" =>
                TrackOfEntry(i) = ( IF 1 \in DigitPositions(TrackField(i).s)
                                    THEN PyInt(IntOf(DigitRunAt(TrackField(i).s, 1)))
                                    ELSE PyNone )

\* C24: parse_index on a text field returns the integer value of the first digit
\* run of the text, wherever it begins ("3/12" gives 3, "#2" gives 2), and absent
\* exactly when the text holds no digit; later digit runs and non-digit content
\* never contribute to the value.
C24_FirstDigitRun ==
    Ordered =>
        \A i \in 1..Len(sort_keys) :
            TrackField(i).t = "str" =>
                LET at == DigitPositions(TrackField(i).s)
                IN  TrackOfEntry(i) =
                        ( IF at = {} THEN PyNone
                          ELSE PyInt(IntOf(DigitRunAt(TrackField(i).s,
                                                      CHOOSE p \in at : \A q \in at : p <= q))) )

\* compute_order has parsed the track texts "3/12", "#2" and "n/a": 3, 2 and absent.
C24_Witness ==
    /\ pc = "ordered"
    /\ \E i, j, k \in 1..Len(files) :
           /\ TrackField(i) = PyStr(<<51, 47, 49, 50>>) /\ TrackOfEntry(i) = PyInt(3)
           /\ TrackField(j) = PyStr(<<35, 50>>) /\ TrackOfEntry(j) = PyInt(2)
           /\ TrackField(k) = PyStr(<<110, 47, 97>>) /\ TrackOfEntry(k) = PyNone

---------------------------------------------------------------------------
(* The metadata map while it is filled.  load_metadata probes the files in *)
(* list order and exiftool prints its items in an order of its own; here   *)
(* the records arrive in any order, which covers both, and the dict keeps  *)
(* its insertion order as a Python dict does.                              *)

\* mapping[path] = info on a dict held as its items in insertion order.
DictSet(d, path, info) ==
    IF \E i \in 1..Len(d) : d[i].path = path
    THEN [i \in 1..Len(d) |-> IF d[i].path = path THEN [path |-> path, info |-> info] ELSE d[i]]
    ELSE Append(d, [path |-> path, info |-> info])

\* The dict as metadata.get reads it: by key, whatever the position of the item.
DictMap(d) ==
    [p \in { d[i].path : i \in 1..Len(d) } |-> d[CHOOSE i \in 1..Len(d) : d[i].path = p].info]

\* "a2.m4b", "a10.m4b", "b.m4b"
ProbePaths == { <<97, 50, 46, 109, 52, 98>>, <<97, 49, 48, 46, 109, 52, 98>>, <<98, 46, 109, 52, 98>> }

\* No tag; track 1 with a title; track "1" with a title; track 2 with title and album.
ProbeRecords ==
    LET x == PyStr(<<120>>)
    IN  { EmptyInfo,
          [EmptyInfo EXCEPT !.TrackNumber = PyInt(1), !.Title = x],
          [EmptyInfo EXCEPT !.TrackNumber = PyStr(<<49>>), !.Title = x],
          [EmptyInfo EXCEPT !.TrackNumber = PyInt(2), !.Title = x, !.Album = x] }

\* The catalog is the scan of the tree; tools.reported is the record the tool in use
\* has for each file, tools.fails the files it has none for (ffprobe fails on them,
\* exiftool prints no item for them).
InitProbe ==
    /\ tree \in (SUBSET ProbePaths) \ {{}}
    /\ files = collect_files(tree, FALSE, DEFAULT_EXTENSIONS)
    /\ tools \in [exiftool : BOOLEAN, reported : [tree -> ProbeRecords], fails : SUBSET tree]
    /\ metadata = <<>>
    /\ root = <<47, 98, 107>>
    /\ durations = <<>>
    /\ chapter_mode = "none"
    /\ ordered = <<>>
    /\ first_ordered = <<>>
    /\ warnings = <<>>
    /\ metadata_source = PyNone
    /\ chapters = <<>>
    /\ pc = "probing"
    /\ links = <<>>
    /\ args = <<>>
    /\ cover_source = PyNone
    /\ cover = PyNone
    /\ written = <<>>
    /\ exit_code = PyNone
    /\ stderr = <<>>
    /\ summary = <<>>
    /\ sort_keys = <<>>
    /\ probed = <<>>

\* The files whose probe has neither completed nor failed.
Pending == { p \in Range(files) : \A i \in 1..Len(probed) : probed[i].path # p }

ToolInUse == IF tools.exiftool THEN "exiftool" ELSE "ffprobe"

\* The record of one file arrives and is stored under its path.
ProbeCompletes ==
    /\ pc = "probing"
    /\ \E p \in Pending \ tools.fails :
           /\ metadata' = DictSet(metadata, p, tools.reported[p])
           /\ probed' = Append(probed, Probe(ToolInUse, p))
    /\ UNCHANGED <<sort_keys, files, root, durations, chapter_mode, ordered, first_ordered,
                   warnings, metadata_source, chapters, pc, env, cover_source, cover,
                   written, exit_code, stderr, summary>>

\* The probe of one file ends without a record: ffprobe failed on it (a line on
\* stderr), or exiftool's output has no item for it.
ProbeFails ==
    /\ pc = "probing"
    /\ \E p \in Pending \cap tools.fails :
           /\ probed' = Append(probed, Probe(ToolInUse, p))
           /\ stderr' = IF tools.exiftool THEN stderr
                        ELSE Append(stderr, MsgFor("ffprobe failed for", p))
    /\ UNCHANGED <<sort_keys, files, metadata, root, durations, chapter_mode, ordered,
                   first_ordered, warnings, metadata_source, chapters, pc, env,
                   cover_source, cover, written, exit_code, summary>>

\* main that orders as soon as one probe has ended, without waiting for the others.
OrderAndSelect_Early ==
    /\ pc = "probing"
    /\ probed # <<>>
    /\ \E r \in {compute_order(files, DictMap(metadata))} :
          /\ ordered' = r.ordered
          /\ first_ordered' = r.ordered
          /\ warnings' = r.warnings
    /\ metadata_source' = choose_metadata_source(ordered', DictMap(metadata))
    /\ pc' = "selected"
    /\ UNCHANGED <<sort_keys, files, metadata, root, durations, chapter_mode, chapters, env,
                   out>>

\* main, lines 362-363, once load_metadata has returned: compute_order and
\* choose_metadata_source read the map by path.
OrderAndSelect ==
    /\ pc = "probing"
    /\ Pending = {}
    /\ \E r \in {compute_order(files, DictMap(metadata))} :
          /\ ordered' = r.ordered
          /\ first_ordered' = r.ordered
          /\ warnings' = r.warnings
    /\ metadata_source' = choose_metadata_source(ordered', DictMap(metadata))
    /\ pc' = "selected"
    /\ UNCHANGED <<sort_keys, files, metadata, root, durations, chapter_mode, chapters, env,
                   out>>

NextProbe == ProbeCompletes \/ ProbeFails \/ OrderAndSelect

SpecProbe == InitProbe /\ [][NextProbe]_vars

\* What the tool reports, keyed by path: a function of the input alone.
Reported == [p \in Range(files) \ tools.fails |-> tools.reported[p]]

\* The paths of the probes in the order they ended.
CompletionOrder == [i \in 1..Len(probed) |-> probed[i].path]

\* C25: the computed order and the selected metadata source do not depend on the
\* order in which the per-file probes end or in which the records are inserted into
\* the metadata map: they are the order and the source of the records keyed by
\* path, and compute_order consumes the map only after the probe of every file of
\* the catalog has completed or failed.
C25_ProbeOrderIndependent ==
    (pc = "selected") =>
        /\ Range(CompletionOrder) = Range(files)
        /\ ordered = compute_order(files, Reported).ordered
        /\ warnings = compute_order(files, Reported).warnings
        /\ metadata_source = choose_metadata_source(ordered, Reported)

\* Three files probed in the reverse of the catalog order, the first to end without
\* a record, the others with track numbers that reorder the catalog.
C25_Witness ==
    /\ pc = "selected"
    /\ Len(files) = 3
    /\ CompletionOrder = <<files[3], files[2], files[1]>>
    /\ files[3] \in tools.fails
    /\ Len(metadata) = 2
    /\ ordered # files
    /\ metadata_source = PyPath(files[1])

\* The chapter metadata file was written in this run.
MetaWritten == args.meta_out # PyNone /\ args.meta_out.s \in DOMAIN written

\* The files whose duration probe has run and succeeded.
DurationsProbed ==
    { probed[i].path : i \in { k \in 1..Len(probed) :
          probed[k].tool = "ffprobe" /\ probed[k].path \notin tools.ffprobe_fails } }

\* One step of build_m4b_inputs.main: a probe runs only with the concat list on
\* disk; the chapter metadata file appears only with every file probed; the return
\* of 4 comes with the concat list written and no chapter metadata file; the
\* return of 0 in chapter mode "none" comes with the concat list alone and no probe.
C26_Step ==
    InBuild =>
        /\ (probed' # probed) => (ConcatWritten /\ written[args.files_out.s] = LinesOf(files))
        /\ (MetaWritten' /\ ~MetaWritten) =>
               (ConcatWritten /\ DurationsProbed' = Range(files) /\ Len(probed') = Len(files))
        /\ (exit_code' = PyInt(4)) =>
               (ConcatWritten' /\ ~MetaWritten' /\ probed' # <<>>)
        /\ (chapter_mode = "none" /\ exit_code' = PyInt(0)) =>
               (DOMAIN written' = {args.files_out.s} /\ probed' = <<>>)

\* C26: in build_m4b_inputs the concat list is written before any duration probe
\* runs and the chapter metadata file is written only after the duration of every
\* file has been probed successfully: a run that ends with the probe-failure exit
\* code 4 leaves the chapter metadata file untouched with the concat list of the run
\* on disk, and a run in chapter mode "none" writes the concat list only and runs
\* no probe.
C26_ConcatThenProbesThenMeta == [][C26_Step]_vars

\* A run that ended with exit code 4 after the second probe failed: the concat list
\* is written, the chapter metadata file is not.
C26_Witness ==
    /\ pc = "build_exit"
    /\ exit_code = PyInt(4)
    /\ Len(probed) = 2
    /\ ConcatWritten
    /\ ~MetaWritten

\* A run in chapter mode "file" that ended with both files written.
C26_BothWritten ==
    /\ pc = "build_exit"
    /\ exit_code = PyInt(0)
    /\ chapter_mode = "file"
    /\ Len(probed) = Len(files)
    /\ ConcatWritten
    /\ MetaWritten

\* The start and end values of a list of chapters.
Boundaries(chs) == { chs[i].start : i \in 1..Len(chs) } \cup { chs[i].end : i \in 1..Len(chs) }

\* The chapters of the file mode over the list and the durations of this run.
FileModeChapters == build_chapters(files, root, "file", durations)

\* C27: for every file list and every assignment of probed durations, the chapter
\* boundaries (start and end values) of the directory mode are a subset of those of
\* the file mode over the same list, there are at most as many directory chapters as
\* files, and both modes end at the same total, the sum of the rounded millisecond
\* durations of the files.
C27_DirBoundariesAmongFileBoundaries ==
    (pc = "chapters" /\ chapter_mode = "dir") =>
        /\ Boundaries(chapters) \subseteq Boundaries(FileModeChapters)
        /\ Len(chapters) <= Len(files)
        /\ (chapters = <<>>) <=> (FileModeChapters = <<>>)
        /\ chapters # <<>> =>
               /\ chapters[Len(chapters)].end = FileModeChapters[Len(files)].end
               /\ chapters[Len(chapters)].end = SumMs(Len(files))

\* Directory mode over three files of two directories: two chapters, whose
\* boundaries leave out one of the four boundaries of the file mode.
C27_Witness ==
    /\ pc = "chapters"
    /\ chapter_mode = "dir"
    /\ Len(files) = 3
    /\ Len(chapters) = 2
    /\ Cardinality(Boundaries(FileModeChapters)) = 4
    /\ Cardinality(Boundaries(chapters)) = 3
    /\ chapters[2].end = SumMs(3)

===========================================================================
